---- MODULE Spec2Model ----
(***************************************************************************)
(* SearchSync: the circuit breaker (utils/error-handling.js) and the       *)
(* 'search' IPC handler of the main process (main.js).                     *)
(*                                                                         *)
(* SpecCB     : one provider's breaker under concurrent execute() calls.   *)
(* Spec       : one 'search' request fanned out over the registry.         *)
(* SpecE2E    : the first 'search' request of a process, over the whole    *)
(*              registry, with three providers eligible.                   *)
(* SpecShared : the breaker Map under calls for several providers.         *)
(* SpecRetry  : one RetryMechanism.execute(fn) call.                       *)
(* SpecNorm   : the error normalizers applied to one rejection reason.     *)
(***************************************************************************)
EXTENDS Integers, Sequences, FiniteSets, TLC

VARIABLES
  circuitBreakers,   \* the module-level Map serviceName -> CircuitBreaker
  now,               \* Date.now()
  started,           \* SpecCB: number of execute() calls made so far
  inflight,          \* SpecCB: number of calls suspended at `await fn()`
  invocations,       \* SpecCB: number of times fn was invoked
  failsSinceSuccess, \* SpecCB history: failures completed since the last success
  last,              \* SpecCB history: the last breaker operation
  pc,                \* Spec: position of the 'search' handler
  query,             \* Spec: the query argument of the request
  activeFilters,     \* Spec: the activeFilters argument of the request
  integrations,      \* Spec: the resolved per-provider configs
  idx,               \* Spec: position of the eligibility loop in the registry
  tasks,             \* Spec: the tasks array (with each promise's settlement)
  errors,            \* Spec: the errors array
  searchCalls,       \* Spec: per provider, number of searchHandler invocations
  replies,           \* Spec: the 'search-results' replies sent
  keytarAvailable,   \* Spec: whether keytar.getPassword resolves (or rejects)
  recorded,          \* SpecShared history: per provider, what its callers did
  retry,             \* SpecRetry: the execute(fn) call of a RetryMechanism
  normalized,        \* SpecNorm: a rejection reason and what the normalizers make of it
  delayed,           \* SpecDelay: a calculateDelay(attempt) call of a RetryMechanism
  http,              \* SpecHttp: a request of the HTTP client and its retries
  ranking,           \* SpecRank: a call of a ranking function: its arguments and what it returned
  corpus,            \* SpecBM25: the token lists of a result set and the BM25 score of one of them
  leak,              \* SpecLeak: one provider failure in two runs that differ in the secret
  ui,                \* SpecUI: the search window: its filters, its stored results, what it displays
  recovery,          \* SpecRecover: whether fn has stopped failing, and the calls begun before
  stores,            \* SpecSettings: the keychain, the legacy store and the per-integration stores
  win                \* SpecWindow: the search input, its timer and the requests awaiting a reply

cbVars == <<started, inflight, invocations, failsSinceSuccess, last>>

searchVars == <<pc, query, activeFilters, integrations, idx, tasks, errors, searchCalls, replies>>

\* the variables of the specifications of single functions
pureVars == <<delayed, http, ranking, corpus, leak, ui, recovery, stores, win>>

auxVars == <<recorded, retry, normalized, pureVars>>

vars == <<circuitBreakers, now, started, inflight, invocations, failsSinceSuccess, last,
          pc, query, activeFilters, integrations, idx, tasks, errors, searchCalls, replies,
          keytarAvailable, recorded, retry, normalized, delayed, http, ranking, corpus, leak, ui,
          recovery, stores, win>>

-----------------------------------------------------------------------------
(* Bounds of the model *)

MaxCalls == 5          \* execute() calls per behaviour of SpecCB
MaxTicks == 5          \* clock steps per behaviour of SpecCB
MaxInflight == 2       \* calls suspended at `await fn()` at a time in SpecRecover
MaxDispatches == 3     \* searches the window sends per behaviour of SpecWindow
MaxSharedCalls == 4    \* execute() calls per behaviour of SpecShared
MaxRetriesOption == 4  \* largest options.maxRetries given to a RetryMechanism
MaxAttempt == 4        \* largest attempt number given to calculateDelay
MaxResults == 3        \* largest result set given to a ranking function
MaxDocs == 3           \* largest result set given to calculateBM25Score
MaxDocLength == 3      \* largest number of tokens of a result
NumProviders == 2      \* registry entries taken into the model of the handler

-----------------------------------------------------------------------------
(* Arithmetic and sequences *)

Min(a, b) == IF a <= b THEN a ELSE b
Max(a, b) == IF a >= b THEN a ELSE b
Range(f) == {f[i] : i \in DOMAIN f}

-----------------------------------------------------------------------------
(* Program constants *)

DefaultThreshold    == 5
DefaultTimeout      == 60000
DefaultResetTimeout == 30000

\* options main.js passes to getCircuitBreaker
SearchBreakerOptions == [threshold |-> 3, timeout |-> 30000, resetTimeout |-> 60000]

\* JS null where a number is expected: `Date.now() < null` compares with 0
Null == 0

ServiceUnavailable == "Circuit breaker is OPEN - service unavailable"

\* granularity of the modelled clock: half the cooldown of the search breakers
TickMs == SearchBreakerOptions.resetTimeout \div 2

StartTime == 2 * SearchBreakerOptions.resetTimeout

-----------------------------------------------------------------------------
(* class CircuitBreaker *)

\* constructor: `options.x || default`
CircuitBreaker(options) ==
  [threshold    |-> IF options.threshold # 0 THEN options.threshold ELSE DefaultThreshold,
   timeout      |-> IF options.timeout # 0 THEN options.timeout ELSE DefaultTimeout,
   resetTimeout |-> IF options.resetTimeout # 0 THEN options.resetTimeout ELSE DefaultResetTimeout,
   failureCount |-> 0,
   lastFailure  |-> Null,
   state        |-> "CLOSED",
   nextAttempt  |-> Null]

setState(b, state) == IF b.state # state THEN [b EXCEPT !.state = state] ELSE b

\* variant: a success clears the failure count but leaves the state
onSuccess_KeepsState(b) == [b EXCEPT !.failureCount = 0]

\* variant: a success closes the breaker but keeps the failure count
onSuccess_KeepsCount(b) == setState(b, "CLOSED")

onSuccess(b) == setState([b EXCEPT !.failureCount = 0], "CLOSED")

\* variant: trips only when the count exceeds the threshold
onFailure_TripsLate(b, t) ==
  LET b1 == [b EXCEPT !.failureCount = @ + 1, !.lastFailure = t]
  IN  IF b1.failureCount > b1.threshold
        THEN [setState(b1, "OPEN") EXCEPT !.nextAttempt = t + b1.resetTimeout]
        ELSE b1

\* variant: a failed trial re-opens the breaker without a new deadline
onFailure_StaleDeadline(b, t) ==
  LET b1 == [b EXCEPT !.failureCount = @ + 1, !.lastFailure = t]
  IN  IF b1.failureCount >= b1.threshold
        THEN IF b.state = "HALF_OPEN"
               THEN setState(b1, "OPEN")
               ELSE [setState(b1, "OPEN") EXCEPT !.nextAttempt = t + b1.resetTimeout]
        ELSE b1

\* variant: failures that settle after the breaker has tripped are not counted
onFailure_DropsLateFailures(b, t) ==
  LET b1 == [b EXCEPT !.failureCount = IF b.state = "CLOSED" THEN @ + 1 ELSE @,
                      !.lastFailure = t]
  IN  IF b1.failureCount >= b1.threshold
        THEN [setState(b1, "OPEN") EXCEPT !.nextAttempt = t + b1.resetTimeout]
        ELSE b1

onFailure(b, t) ==
  LET b1 == [b EXCEPT !.failureCount = @ + 1, !.lastFailure = t]
  IN  IF b1.failureCount >= b1.threshold
        THEN [setState(b1, "OPEN") EXCEPT !.nextAttempt = t + b1.resetTimeout]
        ELSE b1

\* variant: an OPEN breaker always lets the call through as a trial
executeEntry_NeverShorts(b, t) ==
  IF b.state = "OPEN"
    THEN [throws |-> FALSE, error |-> "", cb |-> setState(b, "HALF_OPEN")]
    ELSE [throws |-> FALSE, error |-> "", cb |-> b]

\* variant: the deadline itself still counts as cooldown (<= for <)
executeEntry_InclusiveDeadline(b, t) ==
  IF b.state = "OPEN"
    THEN IF t <= b.nextAttempt
           THEN [throws |-> TRUE, error |-> ServiceUnavailable, cb |-> b]
           ELSE [throws |-> FALSE, error |-> "", cb |-> setState(b, "HALF_OPEN")]
    ELSE [throws |-> FALSE, error |-> "", cb |-> b]

\* variant: a call rejected by the open breaker is recorded as a failure
executeEntry_RejectionCounts(b, t) ==
  IF b.state = "OPEN"
    THEN IF t < b.nextAttempt
           THEN [throws |-> TRUE, error |-> ServiceUnavailable, cb |-> onFailure(b, t)]
           ELSE [throws |-> FALSE, error |-> "", cb |-> setState(b, "HALF_OPEN")]
    ELSE [throws |-> FALSE, error |-> "", cb |-> b]

\* execute(fn) up to its first suspension point: either it throws the
\* 'service unavailable' error, or fn is invoked (with the breaker as it is then)
executeEntry(b, t) ==
  IF b.state = "OPEN"
    THEN IF t < b.nextAttempt
           THEN [throws |-> TRUE, error |-> ServiceUnavailable, cb |-> b]
           ELSE [throws |-> FALSE, error |-> "", cb |-> setState(b, "HALF_OPEN")]
    ELSE [throws |-> FALSE, error |-> "", cb |-> b]

\* variant: every call constructs a breaker and stores it under the name
getCircuitBreaker_AlwaysCreates(map, serviceName, options) ==
  [s \in DOMAIN map \cup {serviceName} |->
     IF s = serviceName THEN CircuitBreaker(options) ELSE map[s]]

\* getCircuitBreaker(serviceName, options): the Map after the call
getCircuitBreaker(map, serviceName, options) ==
  IF serviceName \in DOMAIN map
    THEN map
    ELSE [s \in DOMAIN map \cup {serviceName} |->
            IF s = serviceName THEN CircuitBreaker(options) ELSE map[s]]

-----------------------------------------------------------------------------
(* class RetryMechanism, and the classifier it uses (integrations/utils.js) *)

DefaultMaxRetries == 3
DefaultBaseDelay  == 1000
DefaultMaxDelay   == 30000

\* an options object: a number left undefined is 0 (as falsy as undefined),
\* jitter is "undefined", "false" or "true"
NoOptions == [maxRetries |-> 0, baseDelay |-> 0, maxDelay |-> 0, jitter |-> "undefined"]

\* constructor: `options.maxRetries || 3`, `options.baseDelay || 1000`,
\* `options.maxDelay || 30000`, `options.jitter || true`
RetryMechanism(options) ==
  [maxRetries |-> IF options.maxRetries # 0 THEN options.maxRetries ELSE DefaultMaxRetries,
   baseDelay  |-> IF options.baseDelay # 0 THEN options.baseDelay ELSE DefaultBaseDelay,
   maxDelay   |-> IF options.maxDelay # 0 THEN options.maxDelay ELSE DefaultMaxDelay,
   jitter     |-> (options.jitter = "true") \/ TRUE]

\* calculateDelay(attempt), Math.random() having returned random / 1000:
\* Math.floor(delay * (0.5 + random * 0.5)) under jitter, Math.floor(delay) without
calculateDelay(r, attempt, random) ==
  LET delay == Min(r.baseDelay * 2^(attempt - 1), r.maxDelay)
  IN  IF r.jitter THEN (delay * (1000 + random)) \div 2000 ELSE delay

\* an error is its response status (0: no response), its code ("": none)
\* and its message
isTransientError(error) ==
  \/ error.code # "" /\ error.code \in {"ETIMEDOUT", "ECONNRESET", "ECONNABORTED",
                                        "ENETUNREACH", "EHOSTUNREACH", "ECONNREFUSED"}
  \/ error.status # 0 /\ error.status \in {408, 429, 500, 502, 503, 504}

\* variant: the loop goes on after any error until the attempts are used up
retryThrows_IgnoresClassification(r, attempt, error) == attempt = r.maxRetries

\* the catch block of execute(): whether the error of this attempt is thrown
\* (otherwise execute sleeps and goes round the loop)
retryThrows(r, attempt, error) == attempt = r.maxRetries \/ ~isTransientError(error)

-----------------------------------------------------------------------------
(* The HTTP client's retry logic (utils/http-client.js) *)

HttpMaxRetries     == 3
RetryDelay         == 1000
RetryBackoffFactor == 2
BackoffCap         == 60000
RetryableStatusCodes == {408, 429, 500, 502, 503, 504}

\* the request config the interceptor finds on the error: `settings` tells
\* whether it carries maxRetries, retryableMethods, ... (the interceptor
\* reads them from the request config); retryAfterDelay 0 is undefined
NoConfig == [settings |-> FALSE, method |-> "GET", retryCount |-> 0, retryAfterDelay |-> 0]

\* a response: status 0 is no response; its Retry-After header is absent
\* ("none"), a number of seconds, or an HTTP-date given by its distance
\* from Date.now() in ms
NoResponse == [status |-> 0, retryAfter |-> [kind |-> "none", value |-> 0]]

\* /^\d+$/.test(retryAfter) ? parseInt(retryAfter) * 1000 : new Date(retryAfter) - Date.now()
retryAfterWait(retryAfter) ==
  IF retryAfter.kind = "seconds" THEN retryAfter.value * 1000 ELSE retryAfter.value

\* calculateBackoff, Math.random() having returned random / 1000
calculateBackoff(retryCount, baseDelay, backoffFactor, maxDelay, random) ==
  (Min(baseDelay * backoffFactor^(retryCount - 1), maxDelay) * (1000 + random)) \div 2000

\* shouldRetry(error, response, config): whether it throws, what it returns
\* and what it leaves in config.retryAfterDelay. error is [present, cancelled]
shouldRetry(error, response, config) ==
  LET no  == [throws |-> FALSE, retry |-> FALSE, retryAfterDelay |-> config.retryAfterDelay]
      yes == [no EXCEPT !.retry = TRUE]
  IN  IF config.settings /\ config.retryCount >= HttpMaxRetries THEN no
      ELSE IF ~config.settings THEN [no EXCEPT !.throws = TRUE]
      ELSE IF config.method \notin {"GET", "HEAD", "OPTIONS"} THEN no
      ELSE IF error.present THEN (IF error.cancelled THEN no ELSE yes)
      ELSE IF response.status # 0 /\ response.status \in RetryableStatusCodes
        THEN IF /\ response.retryAfter.kind # "none"
                /\ retryAfterWait(response.retryAfter) > 0
                /\ retryAfterWait(response.retryAfter) < 60000
               THEN [yes EXCEPT !.retryAfterDelay = retryAfterWait(response.retryAfter)]
               ELSE yes
      ELSE no

-----------------------------------------------------------------------------
(* The integration registry (integrations/registry.js) *)

RegistryOrder == <<"jira", "confluence", "azureDevops", "asana">>

IntegrationRegistry ==
  [jira        |-> [sourceName |-> "Jira", filterKey |-> "jira",
                    required |-> <<"baseUrl", "apiToken">>,
                    sensitiveKeys |-> {"apiToken"}],
   confluence  |-> [sourceName |-> "Confluence", filterKey |-> "confluence",
                    required |-> <<"baseUrl", "apiToken">>,
                    sensitiveKeys |-> {"apiToken"}],
   azureDevops |-> [sourceName |-> "Azure DevOps", filterKey |-> "azureDevops",
                    required |-> <<"organization", "project", "personalAccessToken">>,
                    sensitiveKeys |-> {"personalAccessToken"}],
   asana       |-> [sourceName |-> "Asana", filterKey |-> "asana",
                    required |-> <<"personalAccessToken">>,
                    sensitiveKeys |-> {"personalAccessToken"}]]

\* the registry entries of the model, in the order Object.entries yields them;
\* the bound NumProviders takes them in the order jira, asana, confluence, azureDevops
TakeOrder == <<"jira", "asana", "confluence", "azureDevops">>

RegistryIds ==
  SelectSeq(RegistryOrder,
            LAMBDA id : \E i \in 1..Min(NumProviders, Len(TakeOrder)) : TakeOrder[i] = id)

Providers == Range(RegistryIds)

\* a message is the sequence of its fragments; JS null / '' is the empty one
NoMessage == <<>>

\* a config is its `enabled` flag and the set of its fields that hold a
\* non-blank string
hasRequiredFields(config, fields) == \A i \in DOMAIN fields : fields[i] \in config.present

formatMissingFieldsError(config, integrationName, fields) ==
  LET fieldNames ==
        [baseUrl |-> "Base URL", apiToken |-> "API Token", email |-> "Email",
         organization |-> "Organization", project |-> "Project",
         personalAccessToken |-> "Personal Access Token"]
      missing == SelectSeq(fields, LAMBDA f : f \notin config.present)
  IN  <<integrationName, "configuration is incomplete. Please provide:">>
        \o [i \in DOMAIN missing |-> fieldNames[missing[i]]]

validateSearchConfig(id, config) ==
  IF ~hasRequiredFields(config, IntegrationRegistry[id].required)
    THEN formatMissingFieldsError(config, IntegrationRegistry[id].sourceName,
                                  IntegrationRegistry[id].required)
    ELSE NoMessage

\* what a provider's search promise can fulfil with: an array of results or
\* an object {results: [...]}
NoValue == [kind |-> "none", items |-> <<>>]

resultExtractor(id, value) ==
  IF id = "asana"
    THEN IF value.kind = "array" THEN value.items
         ELSE IF value.kind = "object" THEN value.items
         ELSE <<>>
    ELSE IF value.kind = "array" THEN value.items ELSE <<>>

-----------------------------------------------------------------------------
(* Results and their ranking (relevance-scorer.js, main.js sortResultsByDate) *)

NoDate   == 0       \* `updated` missing (null, undefined or '')
BadDate  == 0 - 1   \* `updated` a string that does not parse as a date
Today    == 1000    \* day number of the request
Unscored == 0 - 1   \* no relevanceScore property
NaN      == 0 - 1000000  \* the number NaN

MinScore == 100     \* BM25_CONFIG.minScore, in thousandths

\* a result: `updated` as a day number, bm25 the value calculateBM25Score
\* yields for it (thousandths; negative when idf is negative)
Result(source, n, updated, bm25) ==
  [source |-> source, n |-> n, updated |-> updated, bm25 |-> bm25, relevanceScore |-> Unscored]

Catalog(id) ==
  LET src == IntegrationRegistry[id].sourceName IN
  CASE id = "jira"        -> << Result(src, 1, NoDate, 2000),      Result(src, 2, Today, 1200) >>
    [] id = "asana"       -> << Result(src, 1, Today - 30, 1200), Result(src, 2, Today, 0 - 400) >>
    [] id = "confluence"  -> << Result(src, 1, Today - 400, 3000), Result(src, 2, NoDate, 0) >>
    [] id = "azureDevops" -> << Result(src, 1, Today - 30, 900),  Result(src, 2, Today - 400, 1200) >>

\* sum of the odd-power series z + z^3/3 + z^5/5 + ... from the term of
\* exponent k on, power being z^k and zsq being z^2, all in 1/10000
RECURSIVE AtanhSeries(_, _, _)
AtanhSeries(power, k, zsq) ==
  IF power = 0 \/ k > 61 THEN 0
  ELSE power \div k + AtanhSeries((power * zsq) \div 10000, k + 2, zsq)

\* Math.log((N - n + 0.5) / (n + 0.5)) in thousandths: ln x = 2 atanh((x - 1)/(x + 1)),
\* and for this x, (x - 1)/(x + 1) = (N - 2n)/(N + 1)
idf(N, n) ==
  LET mag == IF N >= 2 * n THEN N - 2 * n ELSE 2 * n - N
      z   == (mag * 10000) \div (N + 1)
      ln  == (2 * AtanhSeries(z, 1, (z * z) \div 10000)) \div 10
  IN  IF N >= 2 * n THEN ln ELSE 0 - ln

\* termCounts[term] || 0
termCount(docTokens, term) == Cardinality({k \in DOMAIN docTokens : docTokens[k] = term})

\* docs.reduce((sum, tokens) => sum + tokens.length, 0)
RECURSIVE totalLength(_)
totalLength(allDocTokens) ==
  IF allDocTokens = <<>> THEN 0
  ELSE Len(Head(allDocTokens)) + totalLength(Tail(allDocTokens))

\* calculateBM25Score(queryTerms, docTokens, allDocTokens, avgDocLength), the
\* average being that of allDocTokens, in thousandths. A query term adds
\* idf * (tf * (k1 + 1)) / (tf + k1 * (1 - b + b * (docLength / avgDocLength)))
\* with k1 = 1.2, b = 0.75 and avgDocLength = total / N, numerator and
\* denominator multiplied by 10 * total
RECURSIVE calculateBM25Score(_, _, _)
calculateBM25Score(queryTerms, docTokens, allDocTokens) ==
  IF Len(docTokens) = 0 \/ queryTerms = <<>> THEN 0
  ELSE LET term         == Head(queryTerms)
           tf           == termCount(docTokens, term)
           N            == Len(allDocTokens)
           docsWithTerm == Cardinality({d \in DOMAIN allDocTokens :
                                          termCount(allDocTokens[d], term) > 0})
           total        == totalLength(allDocTokens)
           termScore    == IF tf = 0 \/ docsWithTerm = 0 THEN 0
                           ELSE (idf(N, docsWithTerm) * (22 * tf * total))
                                  \div (10 * tf * total + 3 * total + 9 * Len(docTokens) * N)
       IN  termScore + calculateBM25Score(Tail(queryTerms), docTokens, allDocTokens)

\* `new Date(updatedDate)` does not throw for a string that does not parse:
\* the difference, the exponential and both clamps are NaN
\* expDecay: exp(-days * recencyDecayPerDay) in thousandths, for the ages
\* of the model
calculateRecencyBoost(updated) ==
  LET days     == Today - updated
      expDecay == CASE days = 0 - 30 -> 1349
                    [] days = 0   -> 1000
                    [] days = 30  -> 741
                    [] days = 400 -> 18
  IN  IF updated = NoDate
        THEN 500
        ELSE IF updated = BadDate
          THEN NaN
          ELSE Max(100, Min(1000, expDecay))

\* Array.prototype.sort with the comparator cmp[a, b] (stable): an element goes after
\* the elements the comparator puts before it and after its equals that
\* came earlier
StableSort(s, cmp) ==
  LET pos(i) == 1 + Cardinality({j \in DOMAIN s :
                                   \/ cmp[s[j], s[i]] < 0
                                   \/ (cmp[s[j], s[i]] = 0 /\ j < i)})
  IN  [k \in DOMAIN s |-> s[CHOOSE i \in DOMAIN s : pos(i) = k]]

\* what Array.prototype.sort can leave: the stable order under a consistent
\* comparator (one that orders the elements of s as a total preorder); under an inconsistent one the order is implementation-defined,
\* here any arrangement an insertion procedure can reach: no neighbour pair
\* the comparator puts the other way round, nor equals out of their order
SortOutcomes(s, cmp) ==
  IF \A a \in Range(s), b \in Range(s), c \in Range(s) :
        (cmp[a, b] <= 0 /\ cmp[b, c] <= 0) => cmp[a, c] <= 0
    THEN { StableSort(s, cmp) }
    ELSE { [k \in DOMAIN s |-> s[p[k]]] :
             p \in { f \in [DOMAIN s -> DOMAIN s] :
                       /\ \A i \in DOMAIN s, j \in DOMAIN s : i # j => f[i] # f[j]
                       /\ \A k \in DOMAIN s : k + 1 \in DOMAIN s =>
                             \/ cmp[s[f[k]], s[f[k + 1]]] < 0
                             \/ (cmp[s[f[k]], s[f[k + 1]]] = 0 /\ f[k] < f[k + 1]) } }

\* the arrays calculateRelevanceScores can return; queryTerms = tokenize(query)
\* is empty for a query of stop-words or one-character tokens only
calculateRelevanceScores(results, q) ==
  IF results = <<>> THEN { <<>> }
  ELSE IF q = "stopwords" THEN { results }
  ELSE LET \* Math.max(minScore, bm25Score * recencyBoost * userBoost), userBoost being 1.0
           relevanceScore(result) ==
             LET recencyBoost == calculateRecencyBoost(result.updated)
             IN  IF recencyBoost = NaN THEN NaN
                 ELSE Max(MinScore, (result.bm25 * recencyBoost) \div 1000)
           scored == [i \in DOMAIN results |->
                        [results[i] EXCEPT !.relevanceScore = relevanceScore(results[i])]]
           \* (a, b) => b.relevanceScore - a.relevanceScore, a NaN difference counting as 0
           byRelevanceScore ==
             [a \in Range(scored), b \in Range(scored) |->
                IF a.relevanceScore = NaN \/ b.relevanceScore = NaN
                  THEN 0
                  ELSE b.relevanceScore - a.relevanceScore]
       IN  SortOutcomes(scored, byRelevanceScore)

\* `dateA && !isNaN(dateA)`
isValidDate(updated) == updated # NoDate /\ updated # BadDate

\* variant: a comparator without the branches for an invalid date
sortResultsByDate_DatesOnly(results) ==
  StableSort(results,
             [a \in Range(results), b \in Range(results) |-> b.updated - a.updated])

sortResultsByDate(results) ==
  StableSort(results,
             [a \in Range(results), b \in Range(results) |->
                IF isValidDate(a.updated) /\ isValidDate(b.updated) THEN b.updated - a.updated
                ELSE IF isValidDate(a.updated) THEN 0 - 1
                ELSE IF isValidDate(b.updated) THEN 1
                ELSE 0])

-----------------------------------------------------------------------------
(* Failures of a provider call and their message (integrations/utils.js) *)

\* a rejection reason: status of error.response (0: no response), error.code,
\* error.message
NoReason         == [status |-> 0, code |-> "", message |-> ""]
CircuitOpenError == [status |-> 0, code |-> "", message |-> ServiceUnavailable]

SearchFailures ==
  { [status |-> 500, code |-> "ERR_BAD_RESPONSE", message |-> "Request failed with status code 500"],
    [status |-> 0, code |-> "ECONNREFUSED", message |-> "connect ECONNREFUSED"] }

handleApiError(error, integrationName) ==
  LET message ==
        IF error.status # 0
          THEN CASE error.status \in {401, 403} ->
                      "Authentication failed. Please check your credentials and permissions."
                 [] error.status = 404 ->
                      "The requested resource was not found. Please verify your configuration."
                 [] error.status = 429 ->
                      "Too many requests. Please wait a moment and try again."
                 [] error.status \in {500, 502, 503, 504} ->
                      "The service is temporarily unavailable. Please try again later."
                 [] OTHER -> "Request failed. Please try again."
        ELSE IF error.code \in {"ECONNREFUSED", "ENOTFOUND"}
          THEN "Unable to connect to the service. Please check your network connection."
        ELSE IF error.code \in {"ETIMEDOUT", "ECONNABORTED"}
          THEN "The request timed out. Please try again."
        ELSE IF error.code = "ENETUNREACH"
          THEN "Network is unreachable. Please check your internet connection."
        ELSE IF error.message # "" THEN error.message
        ELSE "Unknown error"
  IN  <<integrationName, "error:", message>>

-----------------------------------------------------------------------------
(* Message texts and their sanitization (utils/error-sanitizer.js) *)

\* a message text is a sequence of fragments `label sep value`: a plain
\* piece of text has neither label nor separator
Text(t) == [label |-> "", sep |-> "", value |-> t]

\* SENSITIVE_PATTERNS: the words followed by `[=:]\s*[^\s]+`, `auth`
\* followed by `[=:\s]+[^\s]+`, `bearer` and `basic` followed by `\s+[^\s]+`
\* (case-insensitive; the labels of the model are in lower case)
matchesSensitivePattern(fragment) ==
  \/ /\ fragment.label \in {"token", "tokens", "password", "passwords", "secret", "secrets",
                             "key", "keys", "api_key", "personal_access_token", "pat",
                             "credential", "credentials", "private_key", "certificate"}
     /\ fragment.sep \in {"=", ":"}
  \/ fragment.label = "auth" /\ fragment.sep \in {"=", ":", " "}
  \/ fragment.label \in {"bearer", "basic"} /\ fragment.sep = " "

\* sanitizeErrorMessage(message, {provider, maxLength: 150}): each match of
\* a sensitive pattern becomes '[REDACTED]'. The messages of the model hold
\* no stack frame or path and are shorter than maxLength
sanitizeErrorMessage(message) ==
  [k \in DOMAIN message |->
     IF matchesSensitivePattern(message[k]) THEN Text("[REDACTED]") ELSE message[k]]

\* handleApiError(error, integrationName) with the text of its message: the
\* fixed message of the status or code, or error.message when there is
\* neither, sanitized
handleApiErrorText(error, integrationName) ==
  LET fixed   == handleApiError([status |-> error.status, code |-> error.code, message |-> ""],
                                integrationName)[3]
      message == IF fixed = "Unknown error" /\ error.text # <<>>
                   THEN error.text
                   ELSE <<Text(fixed)>>
  IN  <<Text(integrationName), Text("error:")>> \o sanitizeErrorMessage(message)

-----------------------------------------------------------------------------
(* Rejection reasons of any kind, and normalizeError (utils/http-client.js) *)

\* a reason is an Error, an IntegrationError, a string, null or undefined;
\* status is error.response.status (0: no response), code is error.code
\* ("": none), message is error.message ("": none), isRetryable is the
\* property of that name (an IntegrationError has one)
NoRejection ==
  [kind |-> "none", status |-> 0, code |-> "", message |-> "", isRetryable |-> FALSE]

Rejections ==
  { [kind |-> "Error", status |-> st, code |-> c, message |-> m, isRetryable |-> FALSE] :
      st \in {0, 400, 401, 403, 404, 408, 418, 429, 500, 502, 503, 504},
      c \in {"", "ECONNABORTED", "ENOTFOUND", "ECONNREFUSED", "ETIMEDOUT", "ENETUNREACH",
             "ERR_BAD_REQUEST"},
      m \in {"", "Request failed"} }
  \cup
  { [kind |-> "IntegrationError", status |-> 0, code |-> c.code, message |-> c.message,
     isRetryable |-> c.isRetryable] :
      c \in { [code |-> "auth_failed", message |-> "Authentication failed", isRetryable |-> FALSE],
              [code |-> "network_error", message |-> "Network error", isRetryable |-> TRUE],
              [code |-> "invalid_input", message |-> "Invalid config", isRetryable |-> FALSE] } }
  \cup
  { [NoRejection EXCEPT !.kind = k] : k \in {"string", "null", "undefined"} }

\* the fields of an IntegrationError the claims speak of
NoNormalized == [code |-> "", status |-> 0, message |-> "", isRetryable |-> FALSE]

IntegrationError(code, status, message, isRetryable) ==
  [code |-> code, status |-> status, message |-> message, isRetryable |-> isRetryable]

\* variant: 504 grouped with the other 5xx statuses, as handleApiError does
normalizeError_504AsServerError(error) ==
  IF error.kind = "IntegrationError"
    THEN [throws |-> FALSE,
          value |-> IntegrationError(error.code, error.status, error.message, error.isRetryable)]
  ELSE IF error.kind \in {"null", "undefined"}
    THEN [throws |-> TRUE, value |-> NoNormalized]
  ELSE LET status == error.status
           ie(code, message, isRetryable) ==
             [throws |-> FALSE, value |-> IntegrationError(code, status, message, isRetryable)]
       IN  CASE status = 400 -> ie("invalid_input", "Invalid request parameters", FALSE)
             [] status = 401 -> ie("auth_failed", "Authentication failed", FALSE)
             [] status = 403 -> ie("auth_failed", "Insufficient permissions", FALSE)
             [] status = 404 -> ie("not_found", "Resource not found", FALSE)
             [] status = 429 -> ie("rate_limit", "Too many requests", TRUE)
             [] status = 408 -> ie("timeout", "Request timeout", TRUE)
             [] status \in {500, 502, 503, 504} -> ie("server_error", "Server error", TRUE)
             [] OTHER ->
                  IF error.code = "ECONNABORTED"
                    THEN ie("timeout", "Request timeout", TRUE)
                  ELSE IF error.code \in {"ENOTFOUND", "ECONNREFUSED"}
                    THEN ie("network_error", "Network error", TRUE)
                  ELSE ie("unknown_error",
                          IF error.message # "" THEN error.message ELSE "Unknown error", FALSE)

\* normalizeError(error): the IntegrationError returned, or the TypeError of
\* `error.response` when error is null or undefined
normalizeError(error) ==
  IF error.kind = "IntegrationError"
    THEN [throws |-> FALSE,
          value |-> IntegrationError(error.code, error.status, error.message, error.isRetryable)]
  ELSE IF error.kind \in {"null", "undefined"}
    THEN [throws |-> TRUE, value |-> NoNormalized]
  ELSE LET status == error.status
           ie(code, message, isRetryable) ==
             [throws |-> FALSE, value |-> IntegrationError(code, status, message, isRetryable)]
       IN  CASE status = 400 -> ie("invalid_input", "Invalid request parameters", FALSE)
             [] status = 401 -> ie("auth_failed", "Authentication failed", FALSE)
             [] status = 403 -> ie("auth_failed", "Insufficient permissions", FALSE)
             [] status = 404 -> ie("not_found", "Resource not found", FALSE)
             [] status = 429 -> ie("rate_limit", "Too many requests", TRUE)
             [] status \in {408, 504} -> ie("timeout", "Request timeout", TRUE)
             [] status \in {500, 502, 503} -> ie("server_error", "Server error", TRUE)
             [] OTHER ->
                  IF error.code = "ECONNABORTED"
                    THEN ie("timeout", "Request timeout", TRUE)
                  ELSE IF error.code \in {"ENOTFOUND", "ECONNREFUSED"}
                    THEN ie("network_error", "Network error", TRUE)
                  ELSE ie("unknown_error",
                          IF error.message # "" THEN error.message ELSE "Unknown error", FALSE)

\* handleApiError(error, integrationName) for a reason of any kind: its
\* message, or the TypeError of createSanitizedError's `error.name` (and of
\* `error.response`) when error is null or undefined
handleApiErrorCall(error, integrationName) ==
  IF error.kind \in {"null", "undefined"}
    THEN [throws |-> TRUE, message |-> NoMessage]
    ELSE [throws |-> FALSE, message |-> handleApiError(error, integrationName)]

-----------------------------------------------------------------------------
(* Settings: the keychain (keytar), the legacy store and the stores of the *)
(* per-integration ConfigManagers, as ipcMain.on('update-setting') writes  *)
(* them                                                                    *)

\* the setting keys of the model, [id, field] being `integrations.<id>.<field>`:
\* `allowed` is membership of ALLOWED_SETTING_KEYS, `sensitive` that of
\* SENSITIVE_SETTING_KEYS, `min` the least length the schema of the
\* integration's ConfigManager asks of the field (0: the schema has no entry
\* for the field)
SettingKeys ==
  { [id |-> "jira", field |-> "apiToken", allowed |-> TRUE, sensitive |-> TRUE, min |-> 10],
    [id |-> "asana", field |-> "personalAccessToken", allowed |-> TRUE, sensitive |-> TRUE,
     min |-> 0],
    [id |-> "jira", field |-> "searchShortcut", allowed |-> TRUE, sensitive |-> FALSE,
     min |-> 0],
    [id |-> "jira", field |-> "password", allowed |-> FALSE, sensitive |-> FALSE, min |-> 0] }

\* a key a store does not hold. What a store holds under a key is the value
\* set (kind "value") or the object { hasCredential, lastUpdated } (kind
\* "marker")
NoSetting == [kind |-> "absent", hasCredential |-> FALSE, value |-> ""]

\* ConfigManager.set(key, value) of a string: the value is validated if the
\* schema has the field, and stored if it passes
configSet(managers, key, value) ==
  IF key.min > 0 /\ value.length < key.min
    THEN [throws |-> TRUE, managers |-> managers]
    ELSE [throws |-> FALSE,
          managers |-> [managers EXCEPT ![key] = [NoSetting EXCEPT !.kind = "value",
                                                                   !.value = value.text]]]

\* setSecureSetting(settingKey, value); keytarFails: the keytar call rejects
setSecureSetting(st, key, value, keytarFails) ==
  IF keytarFails
    THEN [throws |-> TRUE, st |-> st]
    ELSE IF value.type = "string" /\ value.length > 0
      THEN [throws |-> FALSE,
            st |-> [st EXCEPT !.keychain[key] = [NoSetting EXCEPT !.kind = "value",
                                                                  !.value = value.text],
                              !.store[key] = [NoSetting EXCEPT !.kind = "marker",
                                                               !.hasCredential = TRUE]]]
      ELSE [throws |-> FALSE,
            st |-> [st EXCEPT !.keychain[key] = NoSetting,
                              !.store[key] = [NoSetting EXCEPT !.kind = "marker"]]]

-----------------------------------------------------------------------------
(* SpecCB: concurrent execute() calls on the breaker of one provider *)

Svc == "jira"

NoOp == [op |-> "none", pre |-> CircuitBreaker(SearchBreakerOptions), atInvoke |-> "NONE", error |-> "", at |-> 0]

\* the breaker of Svc (as getCircuitBreaker would hand it out)
Breaker == getCircuitBreaker(circuitBreakers, Svc, SearchBreakerOptions)[Svc]

\* no breaker call made yet
CBIdle ==
  /\ started = 0
  /\ inflight = 0
  /\ invocations = 0
  /\ failsSinceSuccess = 0
  /\ last = NoOp

\* no 'search' request received yet
SearchIdle ==
  /\ pc = "idle"
  /\ query = ""
  /\ activeFilters = {}
  /\ integrations = [id \in {} |-> [enabled |-> TRUE, present |-> {}]]
  /\ idx = 0
  /\ tasks = <<>>
  /\ errors = <<>>
  /\ searchCalls = [id \in Providers |-> 0]
  /\ replies = <<>>

\* no caller of getCircuitBreaker recorded yet
SharedIdle == recorded = <<>>

\* no execute(fn) of a RetryMechanism made yet
RetryIdle ==
  retry = [pc |-> "idle", maxRetries |-> 0, attempt |-> 0, invocations |-> 0,
           seen |-> <<>>,
           outcome |-> [kind |-> "none", value |-> "", error |-> NoReason]]

\* no rejection reason handed to a normalizer yet
NormIdle ==
  normalized = [by |-> "none", reason |-> NoRejection, throws |-> FALSE,
                value |-> NoNormalized, message |-> NoMessage]

\* nothing called yet of calculateDelay, the HTTP client, the ranking
\* functions, calculateBM25Score or handleApiError, and the search window as
\* it opens: no filter active, nothing stored or shown
PureIdle ==
  /\ delayed = [pc |-> "idle", options |-> NoOptions, attempt |-> 0, random |-> 0, delay |-> 0]
  /\ http = [pc |-> "idle", config |-> NoConfig, response |-> NoResponse, random |-> 0, delay |-> 0]
  /\ ranking = [pc |-> "idle", results |-> <<>>, query |-> "", output |-> <<>>,
                updated |-> NoDate, boost |-> 0]
  /\ corpus = [pc |-> "idle", docs |-> <<>>, queryTerms |-> <<>>, doc |-> 0, score |-> 0,
               raises |-> 0, before |-> 0]
  /\ leak = [pc |-> "idle", id |-> "", status |-> 0, code |-> "", template |-> <<>>,
             secrets |-> <<>>, entries |-> <<>>]
  /\ ui = [last |-> "none", activeFilters |-> {}, allResults |-> <<>>,
           data |-> [results |-> <<>>, errors |-> <<>>],
           resultItems |-> <<>>, errorMessage |-> [display |-> FALSE, textContent |-> <<>>],
           noResults |-> FALSE, loadingIndicator |-> FALSE]
  /\ recovery = [healthy |-> FALSE, wasOpen |-> FALSE, old |-> 0, failures |-> 0]
  /\ stores = [keychain |-> [key \in SettingKeys |-> NoSetting],
               store    |-> [key \in SettingKeys |-> NoSetting],
               managers |-> [key \in SettingKeys |-> NoSetting],
               reply    |-> "none"]
  /\ win = [query |-> <<>>, searchTimeout |-> <<>>, dispatched |-> <<>>, pending |-> <<>>,
            dispatches |-> 0]

\* the process as it starts: no breaker made, nothing received, called or shown
InitIdle ==
  /\ circuitBreakers = [s \in {} |-> NoOp.pre]
  /\ now = StartTime
  /\ CBIdle
  /\ SearchIdle
  /\ keytarAvailable = TRUE
  /\ SharedIdle
  /\ RetryIdle
  /\ NormIdle
  /\ PureIdle

\* a search request reaches `getCircuitBreaker(id, ...).execute(fn)`
CBCall ==
  /\ started < MaxCalls
  /\ LET map == getCircuitBreaker(circuitBreakers, Svc, SearchBreakerOptions)
         e   == executeEntry(map[Svc], now)
     IN  /\ circuitBreakers' = [map EXCEPT ![Svc] = e.cb]
         /\ started' = started + 1
         /\ IF e.throws
              THEN /\ UNCHANGED <<inflight, invocations>>
                   /\ last' = [op |-> "shortCircuit", pre |-> map[Svc], atInvoke |-> "NONE",
                            error |-> e.error, at |-> now]
              ELSE /\ inflight' = inflight + 1
                   /\ invocations' = invocations + 1
                   /\ last' = [op |-> "admit", pre |-> map[Svc], atInvoke |-> e.cb.state,
                            error |-> "", at |-> now]
  /\ UNCHANGED <<now, failsSinceSuccess>>
  /\ UNCHANGED searchVars
  /\ UNCHANGED <<keytarAvailable, auxVars>>

\* `await fn()` resumes with a value
CBSettleSuccess ==
  /\ inflight > 0
  /\ circuitBreakers' = [circuitBreakers EXCEPT ![Svc] = onSuccess(@)]
  /\ inflight' = inflight - 1
  /\ failsSinceSuccess' = 0
  /\ last' = [op |-> "success", pre |-> circuitBreakers[Svc], atInvoke |-> "NONE", error |-> "", at |-> now]
  /\ UNCHANGED <<now, started, invocations>>
  /\ UNCHANGED searchVars
  /\ UNCHANGED <<keytarAvailable, auxVars>>

\* `await fn()` resumes with a rejection
CBSettleFailure ==
  /\ inflight > 0
  /\ circuitBreakers' = [circuitBreakers EXCEPT ![Svc] = onFailure(@, now)]
  /\ inflight' = inflight - 1
  /\ failsSinceSuccess' = failsSinceSuccess + 1
  /\ last' = [op |-> "failure", pre |-> circuitBreakers[Svc], atInvoke |-> "NONE", error |-> "", at |-> now]
  /\ UNCHANGED <<now, started, invocations>>
  /\ UNCHANGED searchVars
  /\ UNCHANGED <<keytarAvailable, auxVars>>

\* time passes
CBTick ==
  /\ now < StartTime + MaxTicks * TickMs
  /\ now' = now + TickMs
  /\ UNCHANGED <<circuitBreakers, started, inflight, invocations, failsSinceSuccess, last>>
  /\ UNCHANGED searchVars
  /\ UNCHANGED <<keytarAvailable, auxVars>>

NextCB == CBCall \/ CBSettleSuccess \/ CBSettleFailure \/ CBTick

SpecCB == InitIdle /\ [][NextCB]_vars

-----------------------------------------------------------------------------
(* SpecRecover: a breaker whose fn stops failing while calls keep arriving *)

\* a call reaches execute(fn); calls arrive for ever, at most MaxInflight of
\* them suspended at a time
RecoverCall ==
  /\ inflight < MaxInflight
  /\ LET map == getCircuitBreaker(circuitBreakers, Svc, SearchBreakerOptions)
         e   == executeEntry(map[Svc], now)
     IN  /\ circuitBreakers' = [map EXCEPT ![Svc] = e.cb]
         /\ inflight' = IF e.throws THEN inflight ELSE inflight + 1
  /\ UNCHANGED <<now, started, invocations, failsSinceSuccess, last, recovery>>
  /\ UNCHANGED searchVars
  /\ UNCHANGED <<keytarAvailable, recorded, retry, normalized>>
  /\ UNCHANGED <<delayed, http, ranking, corpus, leak, ui, stores, win>>

\* `await fn()` resumes with a value: the call was begun before fn stopped
\* failing, or after
RecoverSettleSuccess ==
  /\ inflight > 0
  /\ \E old \in {recovery.old, recovery.old - 1} :
       /\ old >= 0
       /\ old <= inflight - 1
       /\ recovery' = [recovery EXCEPT !.old = old]
  /\ circuitBreakers' = [circuitBreakers EXCEPT ![Svc] = onSuccess(@)]
  /\ inflight' = inflight - 1
  /\ UNCHANGED <<now, started, invocations, failsSinceSuccess, last>>
  /\ UNCHANGED searchVars
  /\ UNCHANGED <<keytarAvailable, recorded, retry, normalized>>
  /\ UNCHANGED <<delayed, http, ranking, corpus, leak, ui, stores, win>>

\* `await fn()` resumes with a rejection: fn still fails, or the call was
\* begun before it stopped failing; fn fails at most MaxCalls times
RecoverSettleFailure ==
  /\ inflight > 0
  /\ recovery.failures < MaxCalls
  /\ ~recovery.healthy \/ recovery.old > 0
  /\ circuitBreakers' = [circuitBreakers EXCEPT ![Svc] = onFailure(@, now)]
  /\ inflight' = inflight - 1
  /\ recovery' = [recovery EXCEPT !.failures = @ + 1,
                                  !.old = IF recovery.healthy THEN @ - 1 ELSE @]
  /\ UNCHANGED <<now, started, invocations, failsSinceSuccess, last>>
  /\ UNCHANGED searchVars
  /\ UNCHANGED <<keytarAvailable, recorded, retry, normalized>>
  /\ UNCHANGED <<delayed, http, ranking, corpus, leak, ui, stores, win>>

\* time passes: MaxTicks steps, and on until an OPEN breaker's nextAttempt
RecoverTick ==
  /\ \/ now < StartTime + MaxTicks * TickMs
     \/ /\ Svc \in DOMAIN circuitBreakers
        /\ circuitBreakers[Svc].state = "OPEN"
        /\ now < circuitBreakers[Svc].nextAttempt
  /\ now' = now + TickMs
  /\ UNCHANGED <<circuitBreakers, started, inflight, invocations, failsSinceSuccess, last,
                 recovery>>
  /\ UNCHANGED searchVars
  /\ UNCHANGED <<keytarAvailable, recorded, retry, normalized>>
  /\ UNCHANGED <<delayed, http, ranking, corpus, leak, ui, stores, win>>

\* the provider recovers: every fn begun from here on succeeds
RecoverHeal ==
  /\ ~recovery.healthy
  /\ recovery' = [recovery EXCEPT !.healthy = TRUE, !.old = inflight,
                                  !.wasOpen = (Breaker.state = "OPEN")]
  /\ UNCHANGED <<circuitBreakers, now>>
  /\ UNCHANGED cbVars
  /\ UNCHANGED searchVars
  /\ UNCHANGED <<keytarAvailable, recorded, retry, normalized>>
  /\ UNCHANGED <<delayed, http, ranking, corpus, leak, ui, stores, win>>

NextRecover ==
  RecoverCall \/ RecoverSettleSuccess \/ RecoverSettleFailure \/ RecoverTick \/ RecoverHeal

\* calls keep arriving, every suspended call settles, time passes
SpecRecover ==
  /\ InitIdle
  /\ [][NextRecover]_vars
  /\ WF_vars(RecoverCall)
  /\ WF_vars(RecoverSettleSuccess \/ RecoverSettleFailure)
  /\ WF_vars(RecoverTick)

-----------------------------------------------------------------------------
(* Spec: ipcMain.on('search') *)

\* the kinds of query argument: not a string, blank after trim(), a string
\* whose tokens are all stop-words, a string with query terms
Queries == {"nonString", "blank", "stopwords", "terms"}

\* a stored config: enabled or not, required fields all set or the last one blank
ConfigChoices(id) ==
  LET req == IntegrationRegistry[id].required IN
  { [enabled |-> e, present |-> f] :
      e \in BOOLEAN, f \in {Range(req), Range(req) \ {req[Len(req)]}} }

\* breakers left behind by earlier requests: one failure short of the trip,
\* OPEN in its cooldown, OPEN with the cooldown just over
PriorBreakers ==
  LET fresh == CircuitBreaker(SearchBreakerOptions) IN
  { [fresh EXCEPT !.failureCount = fresh.threshold - 1, !.lastFailure = StartTime - TickMs],
    [fresh EXCEPT !.failureCount = fresh.threshold, !.lastFailure = StartTime - TickMs,
                  !.state = "OPEN", !.nextAttempt = StartTime - TickMs + fresh.resetTimeout],
    [fresh EXCEPT !.failureCount = fresh.threshold, !.lastFailure = StartTime - fresh.resetTimeout,
                  !.state = "OPEN", !.nextAttempt = StartTime] }

\* one request; it is over within one step of the modelled clock, so `now`
\* stays at the time the request arrived
Init ==
  /\ circuitBreakers \in UNION {[D -> PriorBreakers] : D \in SUBSET Providers}
  /\ now = StartTime
  /\ CBIdle
  /\ SearchIdle
  /\ keytarAvailable \in BOOLEAN
  /\ SharedIdle
  /\ RetryIdle
  /\ NormIdle
  /\ PureIdle

safeFilters(filters) == {entry \in filters : entry # ""}

\* `enabled` is always defined: configDefaults.enabled is merged into every config
isEnabled(integrationConfig) == integrationConfig.enabled

\* variant: an empty filter list allows nothing
filterAllowed_EmptyMatchesNone(id, filters) ==
  IntegrationRegistry[id].filterKey \in safeFilters(filters)

filterAllowed(id, filters) ==
  \/ safeFilters(filters) = {}
  \/ IntegrationRegistry[id].filterKey \in safeFilters(filters)

InvalidQueryReply ==
  [results |-> <<>>, scoring |-> FALSE, threw |-> FALSE,
   errors |-> << [source |-> "SearchSync", error |-> <<"Invalid search query received.">>] >>]

EmptyQueryReply ==
  [results |-> <<>>, scoring |-> FALSE, threw |-> FALSE,
   errors |-> << [source |-> "SearchSync", error |-> <<"Search query cannot be empty.">>] >>]

\* variant: the query is not trimmed before the emptiness test, so a query
\* of blanks goes on to the providers
SearchReceiveOn_BlankAccepted(ids) ==
  /\ pc = "idle"
  /\ \E q \in Queries, f \in SUBSET {IntegrationRegistry[id].filterKey : id \in Range(ids)} :
       /\ query' = q
       /\ activeFilters' = f
       /\ IF q = "nonString"
            THEN pc' = "done" /\ replies' = Append(replies, InvalidQueryReply)
            ELSE pc' = "secrets" /\ UNCHANGED replies
  /\ UNCHANGED <<circuitBreakers, now, integrations, idx, tasks, errors, searchCalls>>
  /\ UNCHANGED cbVars
  /\ UNCHANGED <<keytarAvailable, auxVars>>

\* the request arrives: input validation (ids: the keys of integrationRegistry)
SearchReceiveOn(ids) ==
  /\ pc = "idle"
  /\ \E q \in Queries, f \in SUBSET {IntegrationRegistry[id].filterKey : id \in Range(ids)} :
       /\ query' = q
       /\ activeFilters' = f
       /\ IF q = "nonString"
            THEN pc' = "done" /\ replies' = Append(replies, InvalidQueryReply)
            ELSE IF q = "blank"
              THEN pc' = "done" /\ replies' = Append(replies, EmptyQueryReply)
              ELSE pc' = "secrets" /\ UNCHANGED replies
  /\ UNCHANGED <<circuitBreakers, now, integrations, idx, tasks, errors, searchCalls>>
  /\ UNCHANGED cbVars
  /\ UNCHANGED <<keytarAvailable, auxVars>>

\* getSecureSetting(storeKey): the secret is there to read only if keytar
\* answers; a rejection of keytar.getPassword is caught and '' returned
getSecureSetting(config, secretKey) ==
  IF keytarAvailable THEN secretKey \in config.present ELSE FALSE

\* `await getIntegrationsWithSecrets()` resumes with the resolved configs:
\* the stored config of each registry entry, its sensitive keys overwritten
\* with what getSecureSetting returned
SearchResolveOn(ids) ==
  /\ pc = "secrets"
  /\ \E stored \in [Range(ids) -> UNION {ConfigChoices(id) : id \in Range(ids)}] :
       /\ \A id \in Range(ids) : stored[id] \in ConfigChoices(id)
       /\ integrations' =
            [id \in Range(ids) |->
               [stored[id] EXCEPT !.present =
                  {k \in @ : k \in IntegrationRegistry[id].sensitiveKeys
                                => getSecureSetting(stored[id], k)}]]
  /\ pc' = "loop"
  /\ idx' = 1
  /\ UNCHANGED <<circuitBreakers, now, query, activeFilters, tasks, errors, searchCalls, replies>>
  /\ UNCHANGED cbVars
  /\ UNCHANGED <<keytarAvailable, auxVars>>

\* variant: the breaker is obtained before the config is validated
SearchLoopOn_BreakerBeforeValidation(ids) ==
  /\ pc = "loop"
  /\ LET id                == ids[idx]
         definition        == IntegrationRegistry[id]
         integrationConfig == integrations[id]
         validationMessage == validateSearchConfig(id, integrationConfig)
         map               == getCircuitBreaker(circuitBreakers, id, SearchBreakerOptions)
         e                 == executeEntry(map[id], now)
         after(ts)         == IF idx < Len(ids) THEN "loop"
                              ELSE IF Len(ts) > 0 THEN "await" ELSE "collect"
     IN  IF ~isEnabled(integrationConfig) \/ ~filterAllowed(id, activeFilters)
           THEN /\ pc' = after(tasks)
                /\ UNCHANGED <<circuitBreakers, tasks, errors, searchCalls>>
           ELSE IF validationMessage # NoMessage
             THEN /\ errors' = Append(errors, [source |-> definition.sourceName,
                                               error |-> validationMessage])
                  /\ pc' = after(tasks)
                  /\ circuitBreakers' = map
                  /\ UNCHANGED <<tasks, searchCalls>>
             ELSE /\ circuitBreakers' = [map EXCEPT ![id] = e.cb]
                  /\ tasks' = Append(tasks,
                       [id |-> id, source |-> definition.sourceName,
                        status |-> IF e.throws THEN "rejected" ELSE "pending",
                        value |-> NoValue,
                        reason |-> IF e.throws THEN CircuitOpenError ELSE NoReason,
                        atDispatch |-> e.throws])
                  /\ searchCalls' = IF e.throws THEN searchCalls
                                    ELSE [searchCalls EXCEPT ![id] = @ + 1]
                  /\ pc' = after(tasks')
                  /\ UNCHANGED errors
  /\ idx' = idx + 1
  /\ UNCHANGED <<now, query, activeFilters, integrations, replies>>
  /\ UNCHANGED cbVars
  /\ UNCHANGED <<keytarAvailable, auxVars>>

\* one iteration of `for (const [id, definition] of Object.entries(integrationRegistry))`;
\* the loop has no suspension point, so nothing else runs between its iterations
SearchLoopOn(ids) ==
  /\ pc = "loop"
  /\ LET id                == ids[idx]
         definition        == IntegrationRegistry[id]
         integrationConfig == integrations[id]
         validationMessage == validateSearchConfig(id, integrationConfig)
         map               == getCircuitBreaker(circuitBreakers, id, SearchBreakerOptions)
         e                 == executeEntry(map[id], now)
         after(ts)         == IF idx < Len(ids) THEN "loop"
                              ELSE IF Len(ts) > 0 THEN "await" ELSE "collect"
     IN  IF ~isEnabled(integrationConfig) \/ ~filterAllowed(id, activeFilters)
           THEN /\ pc' = after(tasks)
                /\ UNCHANGED <<circuitBreakers, tasks, errors, searchCalls>>
           ELSE IF validationMessage # NoMessage
             THEN /\ errors' = Append(errors, [source |-> definition.sourceName,
                                               error |-> validationMessage])
                  /\ pc' = after(tasks)
                  /\ UNCHANGED <<circuitBreakers, tasks, searchCalls>>
             ELSE /\ circuitBreakers' = [map EXCEPT ![id] = e.cb]
                  /\ tasks' = Append(tasks,
                       [id |-> id, source |-> definition.sourceName,
                        status |-> IF e.throws THEN "rejected" ELSE "pending",
                        value |-> NoValue,
                        reason |-> IF e.throws THEN CircuitOpenError ELSE NoReason,
                        atDispatch |-> e.throws])
                  /\ searchCalls' = IF e.throws THEN searchCalls
                                    ELSE [searchCalls EXCEPT ![id] = @ + 1]
                  /\ pc' = after(tasks')
                  /\ UNCHANGED errors
  /\ idx' = idx + 1
  /\ UNCHANGED <<now, query, activeFilters, integrations, replies>>
  /\ UNCHANGED cbVars
  /\ UNCHANGED <<keytarAvailable, auxVars>>

SearchReceive == SearchReceiveOn(RegistryIds)

SearchResolve == SearchResolveOn(RegistryIds)

SearchLoop == SearchLoopOn(RegistryIds)

\* a provider's search promise fulfils while the handler waits: the rest of
\* that task's execute() runs
SearchFulfil ==
  /\ pc = "await"
  /\ \E i \in DOMAIN tasks :
       /\ tasks[i].status = "pending"
       /\ \E value \in { [kind |-> "array", items |-> <<>>],
                          [kind |-> "array", items |-> Catalog(tasks[i].id)],
                          [kind |-> "object", items |-> Catalog(tasks[i].id)] } :
            tasks' = [tasks EXCEPT ![i].status = "fulfilled", ![i].value = value]
       /\ circuitBreakers' = [circuitBreakers EXCEPT ![tasks[i].id] = onSuccess(@)]
  /\ UNCHANGED <<now, pc, query, activeFilters, integrations, idx, errors, searchCalls, replies>>
  /\ UNCHANGED cbVars
  /\ UNCHANGED <<keytarAvailable, auxVars>>

\* a provider's search promise rejects while the handler waits
SearchReject ==
  /\ pc = "await"
  /\ \E i \in DOMAIN tasks :
       /\ tasks[i].status = "pending"
       /\ \E reason \in SearchFailures :
            tasks' = [tasks EXCEPT ![i].status = "rejected", ![i].reason = reason]
       /\ circuitBreakers' = [circuitBreakers EXCEPT ![tasks[i].id] = onFailure(@, now)]
  /\ UNCHANGED <<now, pc, query, activeFilters, integrations, idx, errors, searchCalls, replies>>
  /\ UNCHANGED cbVars
  /\ UNCHANGED <<keytarAvailable, auxVars>>

\* variant: Promise.all - the wait is over at the first rejection
allSettled_FailFast(ts) ==
  \/ \A i \in DOMAIN ts : ts[i].status = "fulfilled"
  \/ \E i \in DOMAIN ts : ts[i].status = "rejected"

\* Promise.allSettled(tasks.map(t => t.promise)) has resolved
allSettled(ts) == \A i \in DOMAIN ts : ts[i].status # "pending"

\* variant: the results collected so far are dropped when a task is rejected
RECURSIVE collectSettled_RejectDropsResults(_)
collectSettled_RejectDropsResults(ts) ==
  IF ts = <<>> THEN [results |-> <<>>, errors |-> <<>>]
  ELSE LET rest == collectSettled_RejectDropsResults(SubSeq(ts, 1, Len(ts) - 1))
           t    == ts[Len(ts)]
       IN  IF t.status = "fulfilled"
             THEN [results |-> rest.results \o resultExtractor(t.id, t.value),
                   errors  |-> rest.errors]
             ELSE [results |-> <<>>,
                   errors  |-> Append(rest.errors,
                                      [source |-> t.source,
                                       error  |-> handleApiError(t.reason, t.source)])]

\* variant: no `else` - the error entry is pushed for every settled task
RECURSIVE collectSettled_NoElse(_)
collectSettled_NoElse(ts) ==
  IF ts = <<>> THEN [results |-> <<>>, errors |-> <<>>]
  ELSE LET rest == collectSettled_NoElse(SubSeq(ts, 1, Len(ts) - 1))
           t    == ts[Len(ts)]
       IN  [results |-> IF t.status = "fulfilled"
                          THEN rest.results \o resultExtractor(t.id, t.value)
                          ELSE rest.results,
            errors  |-> Append(rest.errors,
                               [source |-> t.source,
                                error  |-> handleApiError(t.reason, t.source)])]

\* settled.forEach(...): the results and the errors of the settled tasks
RECURSIVE collectSettled(_)
collectSettled(ts) ==
  IF ts = <<>> THEN [results |-> <<>>, errors |-> <<>>]
  ELSE LET rest == collectSettled(SubSeq(ts, 1, Len(ts) - 1))
           t    == ts[Len(ts)]
       IN  IF t.status = "fulfilled"
             THEN [results |-> rest.results \o resultExtractor(t.id, t.value),
                   errors  |-> rest.errors]
             ELSE [results |-> rest.results,
                   errors  |-> Append(rest.errors,
                                      [source |-> t.source,
                                       error  |-> handleApiError(t.reason, t.source)])]

\* the entry the catch block adds to the errors of the reply
ScoringEntry ==
  [source |-> "Scoring", error |-> <<"Failed to calculate relevance scores:", "processingError.message">>]

\* variant: the catch block replies with what the try block left in
\* finalResults and with its own entry only
rankedReplies_FallbackEmpty(results, allErrors, q, enableBM25Scoring, throws) ==
  IF throws
    THEN { [results |-> <<>>, errors |-> <<ScoringEntry>>,
            scoring |-> enableBM25Scoring, threw |-> TRUE] }
  ELSE IF enableBM25Scoring /\ Len(results) > 0
    THEN { [results |-> finalResults, errors |-> allErrors,
            scoring |-> enableBM25Scoring, threw |-> FALSE] :
             finalResults \in calculateRelevanceScores(results, q) }
    ELSE { [results |-> sortResultsByDate(results), errors |-> allErrors,
            scoring |-> enableBM25Scoring, threw |-> FALSE] }

\* the ranking stage: the replies it can send for the collected results
\* and errors. throws: the try block throws before its event.reply
\* (configs.app.get or calculateRelevanceScores); sortResultsByDate does not
\* throw for results that are objects, so the inner catch is not entered.
\* scoring and threw record the branch taken
rankedReplies(results, allErrors, q, enableBM25Scoring, throws) ==
  IF throws
    THEN { [results |-> sortResultsByDate(results), errors |-> Append(allErrors, ScoringEntry),
            scoring |-> enableBM25Scoring, threw |-> TRUE] }
  ELSE IF enableBM25Scoring /\ Len(results) > 0
    THEN { [results |-> finalResults, errors |-> allErrors,
            scoring |-> enableBM25Scoring, threw |-> FALSE] :
             finalResults \in calculateRelevanceScores(results, q) }
    ELSE { [results |-> sortResultsByDate(results), errors |-> allErrors,
            scoring |-> enableBM25Scoring, threw |-> FALSE] }

\* the handler resumes after the wait (or runs on when there is no task):
\* collects, ranks and replies. handleApiError is called in settled.forEach
\* outside any try block: when it throws for the reason of a rejected task
\* (a reason that is no object) the async handler ends there, with the
\* entries pushed so far and without a reply
SearchCollect ==
  /\ \/ pc = "collect"
     \/ pc = "await" /\ allSettled(tasks)
  /\ LET thrown == {i \in DOMAIN tasks :
                     /\ tasks[i].status = "rejected"
                     /\ "kind" \in DOMAIN tasks[i].reason
                     /\ handleApiErrorCall(tasks[i].reason, tasks[i].source).throws}
     IN  IF thrown # {}
           THEN LET first == CHOOSE i \in thrown : \A j \in thrown : i <= j
                IN  /\ errors' = errors \o collectSettled(SubSeq(tasks, 1, first - 1)).errors
                    /\ replies' = replies
                    /\ pc' = "threw"
           ELSE /\ \E enableBM25Scoring \in BOOLEAN, throws \in BOOLEAN :
                     LET collected == collectSettled(tasks)
                         allErrors == errors \o collected.errors
                     IN  /\ errors' = allErrors
                         /\ \E reply \in rankedReplies(collected.results, allErrors, query,
                                                       enableBM25Scoring, throws) :
                              replies' = Append(replies, reply)
                /\ pc' = "done"
  /\ UNCHANGED <<circuitBreakers, now, query, activeFilters, integrations, idx, tasks, searchCalls>>
  /\ UNCHANGED cbVars
  /\ UNCHANGED <<keytarAvailable, auxVars>>

Next == SearchReceive \/ SearchResolve \/ SearchLoop \/ SearchFulfil \/ SearchReject \/ SearchCollect

Spec == Init /\ [][Next]_vars

\* a provider's search promise rejects with a reason that is no object
\* (`Promise.reject()`, `throw undefined`, `throw null`)
SearchRejectBare ==
  /\ pc = "await"
  /\ \E i \in DOMAIN tasks :
       /\ tasks[i].status = "pending"
       /\ \E kind \in {"null", "undefined"} :
            tasks' = [tasks EXCEPT ![i].status = "rejected",
                                   ![i].reason = [NoRejection EXCEPT !.kind = kind]]
       /\ circuitBreakers' = [circuitBreakers EXCEPT ![tasks[i].id] = onFailure(@, now)]
  /\ UNCHANGED <<now, pc, query, activeFilters, integrations, idx, errors, searchCalls, replies>>
  /\ UNCHANGED cbVars
  /\ UNCHANGED <<keytarAvailable, auxVars>>

NextAnyReason == Next \/ SearchRejectBare

\* SpecAnyReason: the 'search' request of Spec, its providers rejecting with
\* reasons of any kind
SpecAnyReason == Init /\ [][NextAnyReason]_vars

-----------------------------------------------------------------------------
(* SpecE2E: the first 'search' request after start-up, over the four       *)
(* entries of the registry, three of them eligible and the fourth not a    *)
(* candidate (disabled or filtered out)                                    *)

EligibleCount == 3

Candidate(id, configs, filters) == isEnabled(configs[id]) /\ filterAllowed(id, filters)

InitE2E ==
  /\ circuitBreakers = [s \in {} |-> NoOp.pre]
  /\ now = StartTime
  /\ CBIdle
  /\ pc = "idle"
  /\ query = ""
  /\ activeFilters = {}
  /\ integrations = [id \in {} |-> [enabled |-> TRUE, present |-> {}]]
  /\ idx = 0
  /\ tasks = <<>>
  /\ errors = <<>>
  /\ searchCalls = [id \in Range(RegistryOrder) |-> 0]
  /\ replies = <<>>
  /\ keytarAvailable = TRUE
  /\ SharedIdle
  /\ RetryIdle
  /\ NormIdle
  /\ PureIdle

E2EReceive ==
  /\ SearchReceiveOn(RegistryOrder)
  /\ query' \in {"stopwords", "terms"}
  /\ activeFilters' = {} \/ Cardinality(activeFilters') = EligibleCount

E2EResolve ==
  /\ SearchResolveOn(RegistryOrder)
  /\ \A id \in Range(RegistryOrder) :
       Candidate(id, integrations', activeFilters)
         => validateSearchConfig(id, integrations'[id]) = NoMessage
  /\ Cardinality({id \in Range(RegistryOrder) : Candidate(id, integrations', activeFilters)})
       = EligibleCount

E2ELoop == SearchLoopOn(RegistryOrder)

NextE2E == E2EReceive \/ E2EResolve \/ E2ELoop \/ SearchFulfil \/ SearchReject \/ SearchCollect

SpecE2E == InitE2E /\ [][NextE2E]_vars

-----------------------------------------------------------------------------
(* SpecShared: callers of getCircuitBreaker(id, options).execute(fn) for    *)
(* several providers, each caller with the options it likes                *)

\* the options argument: what main.js passes, `{}` (every field undefined),
\* and a threshold of one
BreakerOptionChoices ==
  { SearchBreakerOptions,
    [threshold |-> 0, timeout |-> 0, resetTimeout |-> 0],
    [threshold |-> 1, timeout |-> 0, resetTimeout |-> 0] }

SharedCallsMade ==
  LET RECURSIVE Sum(_)
      Sum(S) == IF S = {} THEN 0
                ELSE LET x == CHOOSE y \in S : TRUE IN recorded[x].calls + Sum(S \ {x})
  IN  Sum(DOMAIN recorded)

\* a caller obtains the breaker of a provider and calls execute(fn) on it
SharedCall ==
  /\ SharedCallsMade < MaxSharedCalls
  /\ \E id \in Providers, options \in BreakerOptionChoices :
       LET map == getCircuitBreaker(circuitBreakers, id, options)
           e   == executeEntry(map[id], now)
           old == IF id \in DOMAIN recorded
                    THEN recorded[id]
                    ELSE [options |-> options, calls |-> 0, inflight |-> 0, fails |-> 0]
           new == [old EXCEPT !.calls = @ + 1,
                              !.inflight = IF e.throws THEN @ ELSE @ + 1]
       IN  /\ circuitBreakers' = [map EXCEPT ![id] = e.cb]
           /\ recorded' = [s \in DOMAIN recorded \cup {id} |->
                             IF s = id THEN new ELSE recorded[s]]
  /\ UNCHANGED <<now, keytarAvailable, retry, normalized, pureVars>>
  /\ UNCHANGED cbVars
  /\ UNCHANGED searchVars

\* fn of some caller rejects
SharedSettleFailure ==
  /\ \E id \in DOMAIN recorded :
       /\ recorded[id].inflight > 0
       /\ circuitBreakers' = [circuitBreakers EXCEPT ![id] = onFailure(@, now)]
       /\ recorded' = [recorded EXCEPT ![id].inflight = @ - 1, ![id].fails = @ + 1]
  /\ UNCHANGED <<now, keytarAvailable, retry, normalized, pureVars>>
  /\ UNCHANGED cbVars
  /\ UNCHANGED searchVars

\* fn of some caller fulfils
SharedSettleSuccess ==
  /\ \E id \in DOMAIN recorded :
       /\ recorded[id].inflight > 0
       /\ circuitBreakers' = [circuitBreakers EXCEPT ![id] = onSuccess(@)]
       /\ recorded' = [recorded EXCEPT ![id].inflight = @ - 1, ![id].fails = 0]
  /\ UNCHANGED <<now, keytarAvailable, retry, normalized, pureVars>>
  /\ UNCHANGED cbVars
  /\ UNCHANGED searchVars

NextShared == SharedCall \/ SharedSettleFailure \/ SharedSettleSuccess

SpecShared == InitIdle /\ [][NextShared]_vars

-----------------------------------------------------------------------------
(* SpecRetry: new RetryMechanism(options).execute(fn) *)

\* what fn can reject with: transient by status, not transient by status,
\* transient by code, not transient by code, neither status nor code
RetryErrors ==
  SearchFailures \cup
  { [status |-> 404, code |-> "ERR_BAD_REQUEST", message |-> "Request failed with status code 404"],
    [status |-> 0, code |-> "ENOTFOUND", message |-> "getaddrinfo ENOTFOUND"],
    [status |-> 0, code |-> "", message |-> "Unexpected response format"] }

RetryValues == {"first", "second"}

\* execute(fn) is called: the loop starts with attempt 1 and invokes fn
\* (options.maxRetries = 0 stands for an option left undefined)
RetryExecute ==
  /\ retry.pc = "idle"
  /\ \E m \in 0..MaxRetriesOption :
       LET r == RetryMechanism([NoOptions EXCEPT !.maxRetries = m])
       IN  retry' = IF 1 <= r.maxRetries
                      THEN [retry EXCEPT !.pc = "calling", !.maxRetries = r.maxRetries,
                                         !.attempt = 1, !.invocations = 1]
                      ELSE [retry EXCEPT !.pc = "thrown", !.maxRetries = r.maxRetries]
  /\ UNCHANGED <<circuitBreakers, now, keytarAvailable, recorded, normalized, pureVars>>
  /\ UNCHANGED cbVars
  /\ UNCHANGED searchVars

\* `await fn()` resumes with a value: execute returns it
RetryFnFulfils ==
  /\ retry.pc = "calling"
  /\ \E v \in RetryValues :
       retry' = [retry EXCEPT !.pc = "returned",
                              !.outcome = [kind |-> "value", value |-> v, error |-> NoReason]]
  /\ UNCHANGED <<circuitBreakers, now, keytarAvailable, recorded, normalized, pureVars>>
  /\ UNCHANGED cbVars
  /\ UNCHANGED searchVars

\* `await fn()` resumes with a rejection: the catch block
RetryFnRejects ==
  /\ retry.pc = "calling"
  /\ \E error \in RetryErrors :
       retry' = IF retryThrows(retry, retry.attempt, error)
                  THEN [retry EXCEPT !.pc = "thrown", !.seen = Append(@, error),
                                     !.outcome = [kind |-> "error", value |-> "", error |-> error]]
                  ELSE [retry EXCEPT !.pc = "sleeping", !.seen = Append(@, error)]
  /\ UNCHANGED <<circuitBreakers, now, keytarAvailable, recorded, normalized, pureVars>>
  /\ UNCHANGED cbVars
  /\ UNCHANGED searchVars

\* `await this.sleep(delay)` resumes: attempt++, the loop condition, fn again
\* (or, the loop over, `throw lastError`)
RetryWake ==
  /\ retry.pc = "sleeping"
  /\ retry' = IF retry.attempt + 1 <= retry.maxRetries
                THEN [retry EXCEPT !.pc = "calling", !.attempt = @ + 1, !.invocations = @ + 1]
                ELSE [retry EXCEPT !.pc = "thrown", !.attempt = @ + 1,
                                   !.outcome = [kind |-> "error", value |-> "",
                                                error |-> retry.seen[Len(retry.seen)]]]
  /\ UNCHANGED <<circuitBreakers, now, keytarAvailable, recorded, normalized, pureVars>>
  /\ UNCHANGED cbVars
  /\ UNCHANGED searchVars

NextRetry == RetryExecute \/ RetryFnFulfils \/ RetryFnRejects \/ RetryWake

SpecRetry == InitIdle /\ [][NextRetry]_vars

-----------------------------------------------------------------------------
(* SpecNorm: a rejection reason is handed to normalizeError (the response  *)
(* interceptor) or to handleApiError (the 'search' handler)                *)

NormalizeErrorCall ==
  /\ normalized.by = "none"
  /\ \E reason \in Rejections :
       LET r == normalizeError(reason)
       IN  normalized' = [by |-> "normalizeError", reason |-> reason, throws |-> r.throws,
                          value |-> r.value, message |-> NoMessage]
  /\ UNCHANGED <<circuitBreakers, now, keytarAvailable, recorded, retry, pureVars>>
  /\ UNCHANGED cbVars
  /\ UNCHANGED searchVars

HandleApiErrorCall ==
  /\ normalized.by = "none"
  /\ \E reason \in Rejections, id \in Range(RegistryOrder) :
       LET r == handleApiErrorCall(reason, IntegrationRegistry[id].sourceName)
       IN  normalized' = [by |-> "handleApiError", reason |-> reason, throws |-> r.throws,
                          value |-> NoNormalized, message |-> r.message]
  /\ UNCHANGED <<circuitBreakers, now, keytarAvailable, recorded, retry, pureVars>>
  /\ UNCHANGED cbVars
  /\ UNCHANGED searchVars

NextNorm == NormalizeErrorCall \/ HandleApiErrorCall

SpecNorm == InitIdle /\ [][NextNorm]_vars

-----------------------------------------------------------------------------
(* SpecDelay: new RetryMechanism(options), then calculateDelay(attempt) *)

\* values of Math.random(), in thousandths: [0, 1)
RandomValues == {0, 250, 500, 999}

\* new RetryMechanism(options): each delay given or left undefined, jitter
\* left undefined, configured off or configured on
DelayConstruct ==
  /\ delayed.pc = "idle"
  /\ \E b \in {0, 1000, 200}, m \in {0, 5000}, j \in {"undefined", "false", "true"} :
       delayed' = [delayed EXCEPT !.pc = "constructed",
                                  !.options = [NoOptions EXCEPT !.baseDelay = b, !.maxDelay = m,
                                                                !.jitter = j]]
  /\ UNCHANGED <<recovery, stores, win>>
  /\ UNCHANGED <<circuitBreakers, now, keytarAvailable, recorded, retry, normalized, http, ranking, corpus, leak, ui>>
  /\ UNCHANGED cbVars
  /\ UNCHANGED searchVars

\* calculateDelay(attempt), as execute() calls it before a sleep
DelayCalculate ==
  /\ delayed.pc = "constructed"
  /\ \E attempt \in 1..MaxAttempt, random \in RandomValues :
       delayed' = [delayed EXCEPT !.pc = "calculated", !.attempt = attempt, !.random = random,
                                  !.delay = calculateDelay(RetryMechanism(delayed.options),
                                                           attempt, random)]
  /\ UNCHANGED <<recovery, stores, win>>
  /\ UNCHANGED <<circuitBreakers, now, keytarAvailable, recorded, retry, normalized, http, ranking, corpus, leak, ui>>
  /\ UNCHANGED cbVars
  /\ UNCHANGED searchVars

NextDelay == DelayConstruct \/ DelayCalculate

SpecDelay == InitIdle /\ [][NextDelay]_vars

-----------------------------------------------------------------------------
(* SpecHttp: a request through the client of createHttpClient: the response *)
(* error interceptor and the retries it makes                               *)

\* client.request(config)
HttpRequest ==
  /\ http.pc = "idle"
  /\ \E method \in {"GET", "POST"}, settings \in BOOLEAN :
       http' = [http EXCEPT !.pc = "inflight",
                            !.config = [NoConfig EXCEPT !.method = method, !.settings = settings]]
  /\ UNCHANGED <<recovery, stores, win>>
  /\ UNCHANGED <<circuitBreakers, now, keytarAvailable, recorded, retry, normalized, delayed, ranking, corpus, leak, ui>>
  /\ UNCHANGED cbVars
  /\ UNCHANGED searchVars

\* the response interceptor's success handler
HttpFulfils ==
  /\ http.pc = "inflight"
  /\ http' = [http EXCEPT !.pc = "fulfilled"]
  /\ UNCHANGED <<recovery, stores, win>>
  /\ UNCHANGED <<circuitBreakers, now, keytarAvailable, recorded, retry, normalized, delayed, ranking, corpus, leak, ui>>
  /\ UNCHANGED cbVars
  /\ UNCHANGED searchVars

\* the response interceptor's error handler, up to its `await` of the timer
\* or its rejection. The failures of a request: no response, or a status
\* with a Retry-After header (none, 5 s, 60 s, 90 s, a date 5 s ahead, a
\* date 1 s back)
HttpFails ==
  /\ http.pc = "inflight"
  /\ \E response \in
          { NoResponse } \cup
          { [status |-> st, retryAfter |-> ra] :
              st \in {429, 503, 404},
              ra \in { NoResponse.retryAfter,
                       [kind |-> "seconds", value |-> 5], [kind |-> "seconds", value |-> 60],
                       [kind |-> "seconds", value |-> 90],
                       [kind |-> "date", value |-> 5000], [kind |-> "date", value |-> 0 - 1000] } },
        cancelled \in BOOLEAN, random \in RandomValues :
       LET s == shouldRetry([present |-> TRUE, cancelled |-> cancelled], response, http.config)
           retryCount == http.config.retryCount + 1
           backoff == calculateBackoff(retryCount, RetryDelay, RetryBackoffFactor, BackoffCap, random)
       IN  http' =
             IF s.throws
               THEN [http EXCEPT !.pc = "threw", !.response = response]
             ELSE IF s.retry
               THEN [http EXCEPT !.pc = "waiting", !.response = response, !.random = random,
                                 !.config.retryCount = retryCount,
                                 !.config.retryAfterDelay = s.retryAfterDelay,
                                 !.delay = IF s.retryAfterDelay # 0 THEN s.retryAfterDelay
                                                                    ELSE backoff]
             ELSE [http EXCEPT !.pc = "rejected", !.response = response]
  /\ UNCHANGED <<recovery, stores, win>>
  /\ UNCHANGED <<circuitBreakers, now, keytarAvailable, recorded, retry, normalized, delayed, ranking, corpus, leak, ui>>
  /\ UNCHANGED cbVars
  /\ UNCHANGED searchVars

\* the timer fires: `return client(config)`
HttpWake ==
  /\ http.pc = "waiting"
  /\ http' = [http EXCEPT !.pc = "inflight"]
  /\ UNCHANGED <<recovery, stores, win>>
  /\ UNCHANGED <<circuitBreakers, now, keytarAvailable, recorded, retry, normalized, delayed, ranking, corpus, leak, ui>>
  /\ UNCHANGED cbVars
  /\ UNCHANGED searchVars

NextHttp == HttpRequest \/ HttpFulfils \/ HttpFails \/ HttpWake

SpecHttp == InitIdle /\ [][NextHttp]_vars

-----------------------------------------------------------------------------
(* SpecRank: calculateRelevanceScores, sortResultsByDate and               *)
(* calculateRecencyBoost, each called on arguments of any shape            *)

\* `updated` of the results: missing, unparsable, today, a month ago
RankDates == {NoDate, BadDate, Today, Today - 30}

\* the caller collects one more result (`results.push`), its BM25 value
\* positive or negative
RankAdd ==
  /\ ranking.pc = "idle"
  /\ Len(ranking.results) < MaxResults
  /\ \E updated \in RankDates, bm25 \in {2000, 0 - 400} :
       ranking' = [ranking EXCEPT !.results =
                     Append(@, Result("Jira", Len(ranking.results) + 1, updated, bm25))]
  /\ UNCHANGED <<recovery, stores, win>>
  /\ UNCHANGED <<circuitBreakers, now, keytarAvailable, recorded, retry, normalized, delayed, http, corpus, leak, ui>>
  /\ UNCHANGED cbVars
  /\ UNCHANGED searchVars

\* calculateRelevanceScores(results, trimmedQuery, userContext)
RankScore ==
  /\ ranking.pc = "idle"
  /\ \E q \in {"stopwords", "terms"} :
     \E output \in calculateRelevanceScores(ranking.results, q) :
       ranking' = [ranking EXCEPT !.pc = "scored", !.query = q, !.output = output]
  /\ UNCHANGED <<recovery, stores, win>>
  /\ UNCHANGED <<circuitBreakers, now, keytarAvailable, recorded, retry, normalized, delayed, http, corpus, leak, ui>>
  /\ UNCHANGED cbVars
  /\ UNCHANGED searchVars

\* sortResultsByDate(results)
RankByDate ==
  /\ ranking.pc = "idle"
  /\ ranking' = [ranking EXCEPT !.pc = "sorted", !.output = sortResultsByDate(ranking.results)]
  /\ UNCHANGED <<recovery, stores, win>>
  /\ UNCHANGED <<circuitBreakers, now, keytarAvailable, recorded, retry, normalized, delayed, http, corpus, leak, ui>>
  /\ UNCHANGED cbVars
  /\ UNCHANGED searchVars

\* calculateRecencyBoost(result.updated), also of a date ahead and an old one
RankBoost ==
  /\ ranking.pc = "idle"
  /\ ranking.results = <<>>
  /\ \E updated \in RankDates \cup {Today + 30, Today - 400} :
       ranking' = [ranking EXCEPT !.pc = "boosted", !.updated = updated,
                                  !.boost = calculateRecencyBoost(updated)]
  /\ UNCHANGED <<recovery, stores, win>>
  /\ UNCHANGED <<circuitBreakers, now, keytarAvailable, recorded, retry, normalized, delayed, http, corpus, leak, ui>>
  /\ UNCHANGED cbVars
  /\ UNCHANGED searchVars

NextRank == RankAdd \/ RankScore \/ RankByDate \/ RankBoost

SpecRank == InitIdle /\ [][NextRank]_vars

-----------------------------------------------------------------------------
(* SpecBM25: calculateBM25Score on the token lists of a result set, and on *)
(* the same set with one more occurrence of the query term in the document *)

\* a token list: tf occurrences of the query term "login" and other words
DocTokens(len, tf) == [k \in 1..len |-> IF k <= tf THEN "login" ELSE "page"]

\* results.map(result => extractSearchableText(result)): one more result
BM25AddDoc ==
  /\ corpus.pc = "idle"
  /\ Len(corpus.docs) < MaxDocs
  /\ \E len \in 0..MaxDocLength :
     \E tf \in 0..len :
       corpus' = [corpus EXCEPT !.docs = Append(@, DocTokens(len, tf))]
  /\ UNCHANGED <<recovery, stores, win>>
  /\ UNCHANGED <<circuitBreakers, now, keytarAvailable, recorded, retry, normalized, delayed, http, ranking, leak, ui>>
  /\ UNCHANGED cbVars
  /\ UNCHANGED searchVars

\* calculateBM25Score(queryTerms, docTokens[index], docTokens, avgDocLength)
BM25Score ==
  /\ corpus.pc = "idle"
  /\ \E d \in DOMAIN corpus.docs :
       corpus' = [corpus EXCEPT !.pc = "scored", !.queryTerms = <<"login">>, !.doc = d,
                                !.score = calculateBM25Score(<<"login">>, corpus.docs[d], corpus.docs)]
  /\ UNCHANGED <<recovery, stores, win>>
  /\ UNCHANGED <<circuitBreakers, now, keytarAvailable, recorded, retry, normalized, delayed, http, ranking, leak, ui>>
  /\ UNCHANGED cbVars
  /\ UNCHANGED searchVars

\* the same call for the same result set, the document holding the term
\* once more in place of another word: N, n_t, the document's length and
\* the average length are as before (before: the score of the call before)
BM25RaiseTf ==
  /\ corpus.pc = "scored"
  /\ LET d    == corpus.doc
         tf   == termCount(corpus.docs[d], "login")
         docs == [corpus.docs EXCEPT ![d] = DocTokens(Len(corpus.docs[d]), tf + 1)]
     IN  /\ 1 <= tf
         /\ tf < Len(corpus.docs[d])
         /\ corpus' = [corpus EXCEPT !.docs = docs, !.raises = @ + 1, !.before = corpus.score,
                                     !.score = calculateBM25Score(corpus.queryTerms, docs[d], docs)]
  /\ UNCHANGED <<recovery, stores, win>>
  /\ UNCHANGED <<circuitBreakers, now, keytarAvailable, recorded, retry, normalized, delayed, http, ranking, leak, ui>>
  /\ UNCHANGED cbVars
  /\ UNCHANGED searchVars

NextBM25 == BM25AddDoc \/ BM25Score \/ BM25RaiseTf

SpecBM25 == InitIdle /\ [][NextBM25]_vars

-----------------------------------------------------------------------------
(* SpecLeak: the rejection of one provider's task in two runs of the same  *)
(* request that differ only in the provider's secret, and the error entry  *)
(* each run puts in its reply                                              *)

\* values of a provider's secret (apiToken, personalAccessToken)
SecretValues == {"s3cr3tA", "s3cr3tB"}

\* the two runs start: the same request, the secret of provider id differing
\* or not
LeakStart ==
  /\ leak.pc = "idle"
  /\ \E id \in Range(RegistryOrder), a \in SecretValues, b \in SecretValues :
       leak' = [leak EXCEPT !.pc = "searching", !.id = id, !.secrets = <<a, b>>]
  /\ UNCHANGED <<recovery, stores, win>>
  /\ UNCHANGED <<circuitBreakers, now, keytarAvailable, recorded, retry, normalized, delayed, http, ranking, corpus, ui>>
  /\ UNCHANGED cbVars
  /\ UNCHANGED searchVars

\* the provider's task is rejected in both runs with the same kind of
\* failure, and settled.forEach pushes { source, error: handleApiError(...) }.
\* The message a rejection carries: a text, a text followed by the secret
\* bare, or behind a label and a separator, "<secret>" standing in it for
\* the secret of the run
LeakReject ==
  /\ leak.pc = "searching"
  /\ \E status \in {0, 401, 500}, code \in {"", "ECONNREFUSED"},
        template \in
          { <<Text(t)>> :
              t \in {"Request failed with status code 409", "Unexpected response format"} }
          \cup
          { <<Text("Request rejected:"), [label |-> l, sep |-> sp, value |-> "<secret>"]>> :
              l \in {"", "token", "credential", "auth", "bearer"}, sp \in {"", "=", ":", " "} } :
       LET source == IntegrationRegistry[leak.id].sourceName
           instantiate(secret) ==
             [k \in DOMAIN template |->
                IF template[k].value = "<secret>" THEN [template[k] EXCEPT !.value = secret]
                                                  ELSE template[k]]
           entry(secret) ==
             [source |-> source,
              error  |-> handleApiErrorText([status |-> status, code |-> code,
                                             text |-> instantiate(secret)], source)]
       IN  leak' = [leak EXCEPT !.pc = "replied", !.status = status, !.code = code,
                                !.template = template,
                                !.entries = <<entry(leak.secrets[1]), entry(leak.secrets[2])>>]
  /\ UNCHANGED <<recovery, stores, win>>
  /\ UNCHANGED <<circuitBreakers, now, keytarAvailable, recorded, retry, normalized, delayed, http, ranking, corpus, ui>>
  /\ UNCHANGED cbVars
  /\ UNCHANGED searchVars

NextLeak == LeakStart \/ LeakReject

SpecLeak == InitIdle /\ [][NextLeak]_vars

-----------------------------------------------------------------------------
(* SpecUI: the search window (ui/search.js): its filter buttons and its    *)
(* handler of 'search-results'                                             *)

\* clearResults()
clearResults(w) ==
  [w EXCEPT !.loadingIndicator = FALSE, !.errorMessage.display = FALSE, !.noResults = FALSE,
            !.allResults = <<>>, !.resultItems = <<>>]

\* showError(message)
showError(w, message) ==
  [w EXCEPT !.errorMessage = [display |-> TRUE, textContent |-> message],
            !.loadingIndicator = FALSE, !.noResults = FALSE]

\* displayResults(results)
displayResults(w, results) ==
  [w EXCEPT !.resultItems = results, !.noResults = (results = <<>>)]

\* filterResults(): the stored results whose source matches an active filter
filterResults(w) ==
  LET matches(result) == \E filter \in w.activeFilters :
                            result.source = IntegrationRegistry[filter].sourceName
  IN  displayResults(w, SelectSeq(w.allResults, matches))

\* the handler given to window.api.onSearchResults
onSearchResults(w, data) ==
  LET cleared == clearResults([w EXCEPT !.loadingIndicator = FALSE])
      stored  == [cleared EXCEPT !.allResults = data.results]
  IN  IF Len(data.errors) > 0
        THEN showError(cleared, [k \in DOMAIN data.errors |-> data.errors[k].error])
        ELSE IF stored.activeFilters # {}
          THEN filterResults(stored)
          ELSE displayResults(stored, data.results)

\* a click on the filter button of integration id. hasQuery: the search box
\* holds a query of two characters or more, and the search is run again
UIToggleFilter ==
  /\ \E id \in Range(RegistryOrder), hasQuery \in BOOLEAN :
       LET toggled == [ui EXCEPT !.last = "filter",
                                 !.activeFilters = IF id \in @ THEN @ \ {id} ELSE @ \cup {id}]
       IN  ui' = IF hasQuery /\ Len(ui.allResults) > 0
                   THEN [clearResults(toggled) EXCEPT !.loadingIndicator = TRUE]
                 ELSE IF Len(ui.allResults) > 0
                   THEN filterResults(toggled)
                   ELSE toggled
  /\ UNCHANGED <<recovery, stores, win>>
  /\ UNCHANGED <<circuitBreakers, now, keytarAvailable, recorded, retry, normalized, delayed, http, ranking, corpus, leak>>
  /\ UNCHANGED cbVars
  /\ UNCHANGED searchVars

\* a 'search-results' reply arrives: results of no, one or two providers,
\* errors of no, one or two providers
UISearchResults ==
  /\ \E data \in
          { [results |-> r, errors |-> e] :
              r \in { <<>>, Catalog("jira"), Catalog("jira") \o Catalog("confluence") },
              e \in { <<>>,
                      << [source |-> "Asana",
                          error  |-> handleApiError(CircuitOpenError, "Asana")] >>,
                      << [source |-> "Asana",
                          error  |-> handleApiError(CircuitOpenError, "Asana")],
                         [source |-> "Azure DevOps",
                          error  |-> handleApiError([status |-> 401, code |-> "", message |-> ""],
                                                    "Azure DevOps")] >> } } :
       ui' = [onSearchResults(ui, data) EXCEPT !.last = "results", !.data = data]
  /\ UNCHANGED <<recovery, stores, win>>
  /\ UNCHANGED <<circuitBreakers, now, keytarAvailable, recorded, retry, normalized, delayed, http, ranking, corpus, leak>>
  /\ UNCHANGED cbVars
  /\ UNCHANGED searchVars

NextUI == UIToggleFilter \/ UISearchResults

SpecUI == InitIdle /\ [][NextUI]_vars

-----------------------------------------------------------------------------
(* SpecWindow: the search box of the window (ui/search.js): its debounce   *)
(* timer, the searches it sends and the replies that come back             *)

\* an 'input' event of the search box, the box then holding (trimmed) one
\* of: nothing, one character, "ab", "cd" (no integration prefix). A timer
\* is written as the query it will send, <<>> being no timer
WinInput ==
  /\ \E value \in { <<>>, <<"a">>, <<"a", "b">>, <<"c", "d">> } :
       LET cleared == [clearResults(ui) EXCEPT !.last = "input"]
       IN  IF Len(value) = 0 \/ Len(value) < 2
             THEN /\ ui' = cleared
                  /\ win' = [win EXCEPT !.query = value, !.searchTimeout = <<>>]
             ELSE /\ ui' = [cleared EXCEPT !.loadingIndicator = TRUE]
                  /\ win' = [win EXCEPT !.query = value, !.searchTimeout = value]
  /\ UNCHANGED <<recovery, stores>>
  /\ UNCHANGED <<circuitBreakers, now, keytarAvailable, recorded, retry, normalized, delayed, http, ranking, corpus, leak>>
  /\ UNCHANGED cbVars
  /\ UNCHANGED searchVars

\* the debounce timer fires: window.api.search(searchQuery, activeFilters)
WinTimeout ==
  /\ win.searchTimeout # <<>>
  /\ win.dispatches < MaxDispatches
  /\ win' = [win EXCEPT !.searchTimeout = <<>>,
                        !.dispatched = win.searchTimeout,
                        !.pending = Append(@, win.searchTimeout),
                        !.dispatches = @ + 1]
  /\ UNCHANGED <<recovery, stores, ui>>
  /\ UNCHANGED <<circuitBreakers, now, keytarAvailable, recorded, retry, normalized, delayed, http, ranking, corpus, leak>>
  /\ UNCHANGED cbVars
  /\ UNCHANGED searchVars

\* the 'search-results' reply to one of the searches sent arrives, the
\* handlers of the main process finishing in any order; the results of a
\* query are those of one provider, another for each query
WinSearchResults ==
  /\ \E i \in DOMAIN win.pending :
       LET data == [results |-> IF win.pending[i] = <<"a", "b">> THEN Catalog("jira")
                                                                ELSE Catalog("confluence"),
                    errors  |-> <<>>]
       IN  /\ ui' = [onSearchResults(ui, data) EXCEPT !.last = "results", !.data = data]
           /\ win' = [win EXCEPT !.pending = SubSeq(@, 1, i - 1) \o SubSeq(@, i + 1, Len(@))]
  /\ UNCHANGED <<recovery, stores>>
  /\ UNCHANGED <<circuitBreakers, now, keytarAvailable, recorded, retry, normalized, delayed, http, ranking, corpus, leak>>
  /\ UNCHANGED cbVars
  /\ UNCHANGED searchVars

NextWindow == WinInput \/ WinTimeout \/ WinSearchResults

SpecWindow == InitIdle /\ [][NextWindow]_vars

-----------------------------------------------------------------------------
(* SpecSettings: 'update-setting' requests of the settings window *)

\* ipcMain.on('update-setting') with a key of SettingKeys and a value that
\* is null, '' or a string of 6 or 14 characters
UpdateSetting ==
  /\ \E key \in SettingKeys, keytarFails \in BOOLEAN,
        value \in { [type |-> "null", text |-> "", length |-> 0],
                    [type |-> "string", text |-> "", length |-> 0],
                    [type |-> "string", text |-> "s3cr3t", length |-> 6],
                    [type |-> "string", text |-> "s3cr3t-token-A", length |-> 14],
                    [type |-> "string", text |-> "s3cr3t-token-B", length |-> 14] } :
       IF ~key.allowed
         THEN stores' = [stores EXCEPT !.reply = "setting-error"]
         ELSE LET set    == configSet(stores.managers, key, value)
                  synced == IF value.type = "null" \/ value.length = 0
                              THEN [stores EXCEPT !.managers[key] = NoSetting]
                              ELSE [stores EXCEPT !.managers = set.managers]
                  secure == setSecureSetting(synced, key, value, keytarFails)
              IN  IF key.sensitive
                    THEN stores' = [secure.st EXCEPT !.reply = IF secure.throws
                                                                THEN "setting-error"
                                                                ELSE "setting-updated"]
                    ELSE stores' =
                           [synced EXCEPT !.reply = "setting-updated",
                                          !.store[key] =
                                             IF value.type = "null"
                                               THEN NoSetting
                                               ELSE [NoSetting EXCEPT !.kind = "value",
                                                                      !.value = value.text]]
  /\ UNCHANGED <<recovery, win>>
  /\ UNCHANGED <<circuitBreakers, now, keytarAvailable, recorded, retry, normalized, delayed, http, ranking, corpus, leak, ui>>
  /\ UNCHANGED cbVars
  /\ UNCHANGED searchVars

SpecSettings == InitIdle /\ [][UpdateSetting]_vars

-----------------------------------------------------------------------------
(* Properties of the circuit breaker (checked under SpecCB) *)

CallStep    == started' = started + 1
FailStep    == inflight' = inflight - 1 /\ failsSinceSuccess' = failsSinceSuccess + 1
SuccessStep == inflight' = inflight - 1 /\ last'.op = "success"

\* C1: an execute() call made while the breaker is OPEN and the clock is
\* before nextAttempt throws the 'service unavailable' error and does not
\* invoke fn; in particular, once `threshold` failures in a row have been
\* recorded, no call made before resetTimeout has elapsed invokes fn.
C1_ShortCircuitWhileOpen ==
  [][ /\ (CallStep /\ Breaker.state = "OPEN" /\ now < Breaker.nextAttempt)
           => /\ invocations' = invocations
              /\ inflight' = inflight
              /\ last'.op = "shortCircuit"
              /\ last'.error = ServiceUnavailable
      /\ (CallStep /\ failsSinceSuccess >= Breaker.threshold
                   /\ now < Breaker.lastFailure + Breaker.resetTimeout)
           => invocations' = invocations ]_vars

C1_Witness ==
  /\ last.op = "shortCircuit"
  /\ last.pre.state = "OPEN"
  /\ last.pre.failureCount = last.pre.threshold
  /\ started > invocations

\* C5: a failure that brings failureCount to the threshold or above leaves
\* the breaker OPEN with nextAttempt = (time of the failure) + resetTimeout;
\* a failure that leaves the count below the threshold leaves it CLOSED, and
\* a CLOSED breaker lets every call through to fn.
C5_TripAtThreshold ==
  [][ /\ FailStep =>
           IF Breaker'.failureCount >= Breaker'.threshold
             THEN /\ Breaker'.state = "OPEN"
                  /\ Breaker'.nextAttempt = now + Breaker'.resetTimeout
             ELSE /\ Breaker.state = "CLOSED"
                  /\ Breaker'.state = "CLOSED"
      /\ (CallStep /\ Breaker.state = "CLOSED") => invocations' = invocations + 1 ]_vars

C5_Witness ==
  /\ last.op = "failure"
  /\ last.pre.state = "CLOSED"
  /\ last.pre.failureCount = last.pre.threshold - 1
  /\ Breaker.state = "OPEN"
  /\ Breaker.nextAttempt = last.at + Breaker.resetTimeout

\* C6: one success while the breaker is HALF_OPEN sets failureCount to 0
\* and the state to CLOSED.
C6_TrialSuccessCloses ==
  [][ (SuccessStep /\ Breaker.state = "HALF_OPEN")
        => (Breaker'.failureCount = 0 /\ Breaker'.state = "CLOSED") ]_vars

C6_Witness ==
  /\ last.op = "success"
  /\ last.pre.state = "HALF_OPEN"
  /\ last.pre.failureCount >= last.pre.threshold
  /\ Breaker.state = "CLOSED"

\* C7: a failure while the breaker is HALF_OPEN re-opens it with
\* nextAttempt = (time of the failure) + resetTimeout, and the call that
\* follows, if made before that deadline, is short-circuited.
C7_TrialFailureReopens ==
  [][ /\ (FailStep /\ Breaker.state = "HALF_OPEN")
           => /\ Breaker'.state = "OPEN"
              /\ Breaker'.nextAttempt = now + Breaker'.resetTimeout
      /\ (CallStep /\ last.op = "failure" /\ last.pre.state = "HALF_OPEN"
                   /\ now < last.at + Breaker.resetTimeout)
           => /\ last'.op = "shortCircuit"
              /\ invocations' = invocations ]_vars

C7_Witness ==
  /\ last.op = "shortCircuit"
  /\ last.pre.state = "OPEN"
  /\ last.pre.failureCount > last.pre.threshold
  /\ last.pre.nextAttempt = last.pre.lastFailure + last.pre.resetTimeout
  /\ last.at > last.pre.lastFailure

\* C8: a call made while the breaker is OPEN and the clock has reached
\* nextAttempt puts the breaker in HALF_OPEN before fn is invoked, and
\* invokes fn exactly once.
C8_TrialAfterCooldown ==
  [][ (CallStep /\ Breaker.state = "OPEN" /\ now >= Breaker.nextAttempt)
        => /\ last'.op = "admit"
           /\ last'.atInvoke = "HALF_OPEN"
           /\ Breaker'.state = "HALF_OPEN"
           /\ invocations' = invocations + 1 ]_vars

C8_Witness ==
  /\ last.op = "admit"
  /\ last.pre.state = "OPEN"
  /\ last.at = last.pre.nextAttempt
  /\ Breaker.state = "HALF_OPEN"

AllowedEdges ==
  { <<"CLOSED", "OPEN">>, <<"OPEN", "HALF_OPEN">>,
    <<"HALF_OPEN", "CLOSED">>, <<"HALF_OPEN", "OPEN">> }

\* C9: under every interleaving of concurrent execute() calls the state
\* changes only along CLOSED->OPEN, OPEN->HALF_OPEN, HALF_OPEN->CLOSED and
\* HALF_OPEN->OPEN (never OPEN->CLOSED directly).
C9_OnlyStateMachineEdges ==
  [][ Breaker'.state # Breaker.state
        => <<Breaker.state, Breaker'.state>> \in AllowedEdges ]_vars

\* C10: no failure update is lost: failureCount equals the number of
\* failures that completed since the last success, whatever the
\* interleaving of the calls' suspension points.
C10_NoLostFailure == Breaker.failureCount = failsSinceSuccess

C10_Witness ==
  /\ last.op = "failure"
  /\ failsSinceSuccess >= 2
  /\ Breaker.failureCount = failsSinceSuccess
  /\ inflight >= 1

-----------------------------------------------------------------------------
(* Properties of the 'search' handler (checked under Spec) *)

LastReply == replies[Len(replies)]

HasTask(id) == \E i \in DOMAIN tasks : tasks[i].id = id

\* the item is among the results, with or without a relevanceScore added
HasResult(results, item) ==
  \E k \in DOMAIN results : [results[k] EXCEPT !.relevanceScore = Unscored] = item

\* C2: in the reply, every result extracted from a provider whose search
\* fulfilled is present, however many other providers were rejected (by
\* their own failure or by an open breaker).
C2_PartialFailureTolerance ==
  (pc = "done" /\ Len(tasks) > 0) =>
     \A i \in DOMAIN tasks :
        tasks[i].status = "fulfilled" =>
           \A k \in DOMAIN resultExtractor(tasks[i].id, tasks[i].value) :
              HasResult(LastReply.results, resultExtractor(tasks[i].id, tasks[i].value)[k])

C2_Witness ==
  /\ pc = "done"
  /\ \E i, j \in DOMAIN tasks :
       /\ tasks[i].status = "fulfilled"
       /\ Len(resultExtractor(tasks[i].id, tasks[i].value)) = 2
       /\ tasks[j].status = "rejected"
  /\ Len(LastReply.results) = 2
  /\ Len(LastReply.errors) >= 1

\* eligibility as the claim states it
EligibleProvider(id) ==
  /\ integrations[id].enabled = TRUE
  /\ (activeFilters = {} \/ IntegrationRegistry[id].filterKey \in activeFilters)
  /\ validateSearchConfig(id, integrations[id]) = NoMessage

\* the task of the provider was started: its call went out, or its breaker
\* refused it on the spot
TaskStarted(id) ==
  \E i \in DOMAIN tasks :
     /\ tasks[i].id = id
     /\ IF tasks[i].atDispatch THEN searchCalls[id] = 0 ELSE searchCalls[id] = 1

LoopDone == idx > Len(RegistryIds)

\* C3: every eligible provider's task is started before the handler waits
\* for any of them, whatever happened to the tasks started before it (an
\* early rejection included), and the reply to a valid request is sent only
\* when no dispatched task is pending.
C3_FanOutThenWaitForAll ==
  /\ \A k \in 1..Len(RegistryIds) :
        (k < idx /\ EligibleProvider(RegistryIds[k])) => TaskStarted(RegistryIds[k])
  /\ (pc = "await" \/ \E i \in DOMAIN tasks : tasks[i].status # "pending" /\ ~tasks[i].atDispatch)
        => LoopDone
  /\ (Len(replies) > 0 /\ LoopDone) => \A i \in DOMAIN tasks : tasks[i].status # "pending"

C3_Witness ==
  /\ pc = "done"
  /\ Len(replies) = 1
  /\ \E i, j \in DOMAIN tasks :
       /\ i < j
       /\ tasks[i].atDispatch /\ tasks[i].status = "rejected"
       /\ tasks[j].status = "fulfilled"
       /\ searchCalls[tasks[j].id] = 1

-----------------------------------------------------------------------------
(* Properties of the breaker Map (checked under SpecShared) *)

BreakerSettings(b) ==
  [threshold |-> b.threshold, timeout |-> b.timeout, resetTimeout |-> b.resetTimeout]

\* C11: a provider's breaker exists from the first call that names it and
\* is the same one for every later call: it keeps the settings of the
\* options of that first call whatever options later calls pass, and its
\* failureCount is the number of failures all callers together recorded
\* since the last success; a step of a caller of one provider leaves the
\* breaker of every other provider as it was (absent, or unchanged).
C11_OneBreakerPerProvider ==
  [][ \A id \in Providers :
        /\ id \in DOMAIN circuitBreakers' <=> id \in DOMAIN recorded'
        /\ id \in DOMAIN recorded' =>
             /\ BreakerSettings(circuitBreakers'[id])
                  = BreakerSettings(CircuitBreaker(recorded'[id].options))
             /\ circuitBreakers'[id].failureCount = recorded'[id].fails
        /\ (id \in DOMAIN recorded /\ recorded'[id] = recorded[id])
             => circuitBreakers'[id] = circuitBreakers[id]
        /\ (id \notin DOMAIN recorded /\ id \notin DOMAIN recorded')
             => id \notin DOMAIN circuitBreakers' ]_vars

C11_Witness ==
  \E a, b \in DOMAIN recorded :
     /\ a # b
     /\ recorded[a].options # recorded[b].options
     /\ recorded[a].calls >= 3
     /\ recorded[a].inflight >= 1
     /\ circuitBreakers[a].failureCount = 2
     /\ circuitBreakers[b].failureCount = 0
     /\ circuitBreakers[a].threshold # circuitBreakers[b].threshold

-----------------------------------------------------------------------------
(* Properties of the retry mechanism (checked under SpecRetry) *)

\* C13: after a failed attempt fn is invoked again iff the attempt number
\* is below maxRetries and the error is transient; otherwise execute throws
\* the error of that attempt, unchanged. So a first failure that is not
\* transient means one invocation, failures that are all transient mean
\* maxRetries invocations, and a fulfilment on any attempt ends the call
\* with the value fn gave.
C13_RetryIffTransientAndAttemptsLeft ==
  [][ /\ (retry.pc = "calling" /\ retry'.pc \in {"sleeping", "thrown"}) =>
            LET error == retry'.seen[Len(retry'.seen)] IN
            /\ Len(retry'.seen) = retry.attempt
            /\ retry'.pc = "sleeping" <=> (retry.attempt < retry.maxRetries /\ isTransientError(error))
            /\ retry'.pc = "thrown" => retry'.outcome = [kind |-> "error", value |-> "", error |-> error]
      /\ retry.pc = "sleeping" =>
            /\ retry'.pc = "calling"
            /\ retry'.invocations = retry.invocations + 1
      /\ (retry'.pc = "thrown" /\ ~isTransientError(retry'.seen[1])) => retry'.invocations = 1
      /\ (retry'.pc = "thrown" /\ \A i \in DOMAIN retry'.seen : isTransientError(retry'.seen[i]))
            => retry'.invocations = retry'.maxRetries
      /\ retry'.pc = "returned" =>
            /\ retry.pc = "calling"
            /\ retry'.outcome.kind = "value"
            /\ retry'.outcome.value \in RetryValues
            /\ retry'.invocations = Len(retry'.seen) + 1
      /\ retry.pc \notin {"returned", "thrown"} ]_vars

C13_Witness ==
  /\ retry.pc = "thrown"
  /\ retry.maxRetries = DefaultMaxRetries
  /\ retry.invocations = DefaultMaxRetries
  /\ Len(retry.seen) = DefaultMaxRetries
  /\ retry.seen[1] # retry.seen[2]
  /\ retry.outcome.error = retry.seen[DefaultMaxRetries]

-----------------------------------------------------------------------------
(* Properties of the 'search' handler, continued (checked under Spec) *)

\* C12: a provider call is retried inside the breaker: when the task of a
\* provider is rejected by a transient failure of its search, the search
\* has been invoked maxRetries times in this request, and the breaker
\* records that one failure for the request.
C12_RetriedInsideBreaker ==
  [][ \A i \in DOMAIN tasks :
        (tasks[i].status = "pending" /\ tasks'[i].status = "rejected") =>
           /\ circuitBreakers'[tasks[i].id].failureCount
                = circuitBreakers[tasks[i].id].failureCount + 1
           /\ isTransientError(tasks'[i].reason)
                => searchCalls'[tasks[i].id] = DefaultMaxRetries ]_vars

\* C15: a request whose query is not a string, or is empty after trim(),
\* is over in the step that receives it: one reply with no results and one
\* error entry of the application itself; the eligibility loop is never
\* entered (no config validated, no breaker obtained, no search invoked)
\* and the breaker Map is left as it was.
C15_InvalidQueryRejectedUpFront ==
  [][ query' \in {"nonString", "blank"} =>
        /\ pc = "idle"
        /\ pc' = "done"
        /\ Len(replies') = 1
        /\ replies'[1].results = <<>>
        /\ Len(replies'[1].errors) = 1
        /\ replies'[1].errors[1].source = "SearchSync"
        /\ circuitBreakers' = circuitBreakers
        /\ idx' = 0
        /\ tasks' = <<>>
        /\ errors' = <<>>
        /\ \A id \in Providers : searchCalls'[id] = 0 ]_vars

C15_Witness ==
  /\ pc = "done"
  /\ query = "blank"
  /\ replies = <<EmptyQueryReply>>
  /\ idx = 0
  /\ \E id \in DOMAIN circuitBreakers :
       circuitBreakers[id].state = "OPEN" /\ circuitBreakers[id].nextAttempt = now

PositionOf(id) == CHOOSE k \in DOMAIN RegistryIds : RegistryIds[k] = id

ErrorsOf(errs, source) == {k \in DOMAIN errs : errs[k].source = source}

\* C16: for a provider whose validateSearchConfig returns a message: once
\* the loop has passed it as a candidate, the errors hold exactly one entry
\* {source, error: message} for it (none if it was no candidate), and the
\* reply carries it at the same place; no task exists for it, its search
\* is never invoked, and no step of the request creates or changes its
\* breaker.
C16_InvalidConfigNeverDispatched ==
  [][ \A id \in Providers :
        (id \in DOMAIN integrations' /\ validateSearchConfig(id, integrations'[id]) # NoMessage) =>
           LET source  == IntegrationRegistry[id].sourceName
               entries == ErrorsOf(errors', source)
           IN  /\ searchCalls'[id] = 0
               /\ \A i \in DOMAIN tasks' : tasks'[i].id # id
               /\ id \in DOMAIN circuitBreakers' <=> id \in DOMAIN circuitBreakers
               /\ id \in DOMAIN circuitBreakers => circuitBreakers'[id] = circuitBreakers[id]
               /\ IF PositionOf(id) < idx' /\ Candidate(id, integrations', activeFilters')
                    THEN /\ Cardinality(entries) = 1
                         /\ \A k \in entries :
                              errors'[k].error = validateSearchConfig(id, integrations'[id])
                    ELSE entries = {}
               /\ pc' = "done" =>
                    \A k \in entries : /\ k <= Len(replies'[Len(replies')].errors)
                                       /\ replies'[Len(replies')].errors[k] = errors'[k] ]_vars

C16_Witness ==
  /\ pc = "done"
  /\ Len(tasks) = 1
  /\ Len(LastReply.errors) >= 1
  /\ \E id \in Providers :
       /\ validateSearchConfig(id, integrations[id]) # NoMessage
       /\ Candidate(id, integrations, activeFilters)
       /\ id \notin DOMAIN circuitBreakers
       /\ LastReply.errors[1] = [source |-> IntegrationRegistry[id].sourceName,
                                 error  |-> validateSearchConfig(id, integrations[id])]

C18_SecretFailureAbortsRequest ==
  (pc = "done" /\ query \in {"stopwords", "terms"}) =>
     IF keytarAvailable
       THEN \A k \in DOMAIN LastReply.errors : LastReply.errors[k].source # "SearchSync"
       ELSE /\ LastReply.results = <<>>
            /\ Len(LastReply.errors) = 1
            /\ LastReply.errors[1].source = "SearchSync"
            /\ idx = 0
            /\ tasks = <<>>
            /\ \A id \in Providers : searchCalls[id] = 0

-----------------------------------------------------------------------------
(* The end-to-end scenario (checked under SpecE2E) *)

\* C14: whenever the request had three tasks, A's search fulfilled with 2
\* results, B's search failed with HTTP 500 each time it was called and C's
\* search fulfilled with an empty array, the request ends with B's breaker
\* OPEN, the results being A's 2 entries and the errors being one entry,
\* B's.
C14_EndToEndScenario ==
  pc = "done" =>
    \A a, b, c \in DOMAIN tasks :
       ( /\ Len(tasks) = EligibleCount
         /\ tasks[a].status = "fulfilled"
         /\ Len(resultExtractor(tasks[a].id, tasks[a].value)) = 2
         /\ tasks[b].status = "rejected"
         /\ tasks[b].reason.status = 500
         /\ tasks[c].status = "fulfilled"
         /\ tasks[c].value = [kind |-> "array", items |-> <<>>] )
       => /\ circuitBreakers[tasks[b].id].state = "OPEN"
          /\ Len(LastReply.results) = 2
          /\ \A k \in 1..2 :
               HasResult(LastReply.results, resultExtractor(tasks[a].id, tasks[a].value)[k])
          /\ Len(LastReply.errors) = 1
          /\ LastReply.errors[1].source = tasks[b].source

-----------------------------------------------------------------------------
(* Properties of the error normalizers (checked under SpecNorm) *)

\* the table of the claim: code and isRetryable by response status, then by
\* transport code
ClaimedCode(error) ==
  CASE error.status \in {401, 403} -> [code |-> "auth_failed", isRetryable |-> FALSE]
    [] error.status = 404 -> [code |-> "not_found", isRetryable |-> FALSE]
    [] error.status \in {408, 504} -> [code |-> "timeout", isRetryable |-> TRUE]
    [] error.status = 429 -> [code |-> "rate_limit", isRetryable |-> TRUE]
    [] error.status \in {500, 502, 503} -> [code |-> "server_error", isRetryable |-> TRUE]
    [] OTHER ->
         IF error.code = "ECONNABORTED" THEN [code |-> "timeout", isRetryable |-> TRUE]
         ELSE IF error.code \in {"ENOTFOUND", "ECONNREFUSED"}
           THEN [code |-> "network_error", isRetryable |-> TRUE]
         ELSE [code |-> "unknown_error", isRetryable |-> FALSE]

Classified(value) == [code |-> value.code, isRetryable |-> value.isRetryable]

C20_NormalizationNeverThrows ==
  normalized.by # "none" =>
     /\ ~normalized.throws
     /\ normalized.by = "normalizeError" => normalized.value.code # ""
     /\ normalized.by = "handleApiError" => normalized.message # NoMessage

-----------------------------------------------------------------------------
(* Properties of the backoff delay (checked under SpecDelay) *)

\* the value the backoff formula gives for the call: min(baseDelay * 2^(n-1), maxDelay),
\* with the delays the options give (or the defaults for those left undefined)
FormulaDelay ==
  LET base == IF delayed.options.baseDelay # 0 THEN delayed.options.baseDelay ELSE DefaultBaseDelay
      cap  == IF delayed.options.maxDelay # 0 THEN delayed.options.maxDelay ELSE DefaultMaxDelay
  IN  Min(base * 2^(delayed.attempt - 1), cap)

\* C21: with jitter configured off, the delay before retry n equals
\* min(baseDelay * 2^(n-1), maxDelay) for every n >= 1; with jitter on, the
\* delay lies between 0.5 and 1.0 times that value
C21_DelayFollowsFormula ==
  delayed.pc = "calculated" =>
    /\ delayed.options.jitter = "false" => delayed.delay = FormulaDelay
    /\ delayed.options.jitter = "true" =>
          (FormulaDelay <= 2 * delayed.delay /\ delayed.delay <= FormulaDelay)

-----------------------------------------------------------------------------
(* Properties of the HTTP client's retries (checked under SpecHttp) *)

\* the wait the Retry-After header of the failed response asks for is
\* positive and at most 60 s
HintInRange ==
  /\ http.response.retryAfter.kind # "none"
  /\ retryAfterWait(http.response.retryAfter) > 0
  /\ retryAfterWait(http.response.retryAfter) <= 60000

\* C22: when a failed response carries a rate-limit hint whose computed wait
\* is positive and at most 60 s, the wait before that retry is the hinted
\* value; with a hint outside that range, or none, it is the value of the
\* backoff formula
C22_HintedWaitReplacesBackoff ==
  http.pc = "waiting" =>
    http.delay = IF HintInRange
                   THEN retryAfterWait(http.response.retryAfter)
                   ELSE calculateBackoff(http.config.retryCount, RetryDelay, RetryBackoffFactor,
                                         BackoffCap, http.random)

-----------------------------------------------------------------------------
(* Properties of the ranking functions (checked under SpecRank) *)

\* C23: after calculateRelevanceScores(results, query) for any non-empty
\* result set and any trimmed non-empty query (queries of stop-words only
\* and results with any `updated` included), every returned result carries a
\* numeric relevanceScore of at least minScore
C23_ScoreAtLeastMinScore ==
  (ranking.pc = "scored" /\ ranking.results # <<>>) =>
     \A k \in DOMAIN ranking.output :
        /\ ranking.output[k].relevanceScore # Unscored
        /\ ranking.output[k].relevanceScore # NaN
        /\ ranking.output[k].relevanceScore >= MinScore

\* out holds the elements of in, each once (whatever relevanceScore it has
\* been given)
IsPermutation(out, in) ==
  /\ Len(out) = Len(in)
  /\ \A k \in DOMAIN out :
        /\ out[k].n \in DOMAIN in
        /\ [out[k] EXCEPT !.relevanceScore = Unscored] = in[out[k].n]
  /\ \A i \in DOMAIN out, j \in DOMAIN out : i # j => out[i].n # out[j].n

IsNumber(x) == x # Unscored /\ x # NaN

\* C24: calculateRelevanceScores returns a permutation of its input ordered
\* by relevanceScore descending, and any two results with equal score keep
\* their input relative order
C24_ScoredOrderStableDescending ==
  ranking.pc = "scored" =>
     /\ IsPermutation(ranking.output, ranking.results)
     /\ \A i \in DOMAIN ranking.output, j \in DOMAIN ranking.output :
           (/\ i < j
            /\ IsNumber(ranking.output[i].relevanceScore)
            /\ IsNumber(ranking.output[j].relevanceScore)) =>
              /\ ranking.output[i].relevanceScore >= ranking.output[j].relevanceScore
              /\ ranking.output[i].relevanceScore = ranking.output[j].relevanceScore
                    => ranking.output[i].n < ranking.output[j].n

\* C27: calculateRecencyBoost returns the neutral 0.5 for every result whose
\* `updated` is missing or is a string that does not parse as a date, and a
\* value within [0.1, 1.0] for every valid date
C27_RecencyBoostNeutralOrClamped ==
  ranking.pc = "boosted" =>
     IF isValidDate(ranking.updated)
       THEN 100 <= ranking.boost /\ ranking.boost <= 1000
       ELSE ranking.boost = 500

\* the positions of the output of sortResultsByDate holding a valid `updated`
ValidPositions == {k \in DOMAIN ranking.output : isValidDate(ranking.output[k].updated)}

\* the results with a valid `updated` come first, the others follow in
\* their original relative order
ValidFirstRestInOrder ==
  \A i \in DOMAIN ranking.output, j \in DOMAIN ranking.output :
     i < j =>
       /\ j \in ValidPositions => i \in ValidPositions
       /\ (i \notin ValidPositions /\ j \notin ValidPositions)
             => ranking.output[i].n < ranking.output[j].n

\* C25: sortResultsByDate returns a permutation of its input in which all
\* results with a valid `updated` come first in strictly descending date
\* order, followed by all results whose `updated` is missing or unparsable in
\* their original relative order
C25_DateSortValidFirst ==
  ranking.pc = "sorted" =>
     /\ IsPermutation(ranking.output, ranking.results)
     /\ ValidFirstRestInOrder
     /\ \A i \in ValidPositions, j \in ValidPositions :
           i < j => ranking.output[i].updated > ranking.output[j].updated

\* C25, amended: ... come first in descending date order, results with the
\* same date in their original relative order, followed by all results whose
\* `updated` is missing or unparsable in their original relative order
C25_DateSortValidFirstAmended ==
  ranking.pc = "sorted" =>
     /\ IsPermutation(ranking.output, ranking.results)
     /\ ValidFirstRestInOrder
     /\ \A i \in ValidPositions, j \in ValidPositions :
           i < j =>
             /\ ranking.output[i].updated >= ranking.output[j].updated
             /\ ranking.output[i].updated = ranking.output[j].updated
                   => ranking.output[i].n < ranking.output[j].n

\* a set of three results has been sorted in which a result without a valid
\* date stood before one with a valid date, and an older date before a newer
C25_Witness ==
  /\ ranking.pc = "sorted"
  /\ Len(ranking.results) = 3
  /\ \E k \in 1..2 :
        /\ ~isValidDate(ranking.results[k].updated)
        /\ isValidDate(ranking.results[k + 1].updated)
  /\ \E k \in 1..2 :
        /\ isValidDate(ranking.results[k].updated)
        /\ isValidDate(ranking.results[k + 1].updated)
        /\ ranking.results[k].updated < ranking.results[k + 1].updated
  /\ ranking.output # ranking.results

-----------------------------------------------------------------------------
(* Properties of the ranking stage of the 'search' handler (checked under Spec) *)

\* where the result e stands in the sequence s
IndexIn(s, e) == CHOOSE k \in DOMAIN s : s[k] = e

\* out holds the results of in in date-fallback order: those with a valid
\* `updated` first, newest first, the others after them, and results that
\* compare as equal in the order they have in in
DateFallbackOrder(out, in) ==
  /\ Len(out) = Len(in)
  /\ Range(out) = Range(in)
  /\ \A i \in DOMAIN out, j \in DOMAIN out :
        i < j =>
          /\ isValidDate(out[j].updated) => isValidDate(out[i].updated)
          /\ isValidDate(out[j].updated) => out[i].updated >= out[j].updated
          /\ (\/ ~isValidDate(out[i].updated)
              \/ out[i].updated = out[j].updated)
                => IndexIn(in, out[i]) < IndexIn(in, out[j])

-----------------------------------------------------------------------------
(* Properties of calculateBM25Score (checked under SpecBM25) *)

\* C28: for a fixed result set size N, document count n_t, document length
\* and average length, raising a query term's frequency tf in a document
\* never lowers that document's calculateBM25Score, for every n_t with
\* 1 <= n_t <= N
C28_ScoreMonotoneInTf ==
  (corpus.pc = "scored" /\ corpus.raises > 0) => corpus.score >= corpus.before

-----------------------------------------------------------------------------
(* Properties of the error entries (checked under SpecLeak) *)

\* C29: error entries depend only on the sanitized failure kind, never on
\* credential values: two runs that differ only in the secret values held in
\* provider configs (and in secrets embedded in provider failure messages)
\* produce identical errors lists
C29_ErrorsIndependentOfSecrets ==
  leak.pc = "replied" => leak.entries[1] = leak.entries[2]

-----------------------------------------------------------------------------
(* Properties of the search window (checked under SpecUI) *)

\* C30: when a search reply carries both a non-empty `results` list and a
\* non-empty `errors` list, the search window displays the successful
\* results together with the per-source error strings; results are never
\* discarded because some provider failed
C30_ResultsShownWithErrors ==
  (ui.last = "results" /\ ui.data.results # <<>> /\ ui.data.errors # <<>>) =>
     /\ ui.errorMessage.display
     /\ ui.errorMessage.textContent = [k \in DOMAIN ui.data.errors |-> ui.data.errors[k].error]
     /\ ui.allResults = ui.data.results
     /\ ui.activeFilters = {} => ui.resultItems = ui.data.results

-----------------------------------------------------------------------------
(* Further properties of the circuit breaker (checked under SpecCB) *)

\* C33: while the breaker is OPEN its deadline stands: a failure of a call
\* that was in flight when it opened leaves nextAttempt as it is, and a call
\* made at or after the deadline is admitted as a trial.
C33_CooldownNotPostponed ==
  [][ /\ (FailStep /\ Breaker.state = "OPEN") => Breaker'.nextAttempt = Breaker.nextAttempt
      /\ (CallStep /\ Breaker.state = "OPEN" /\ now >= Breaker.nextAttempt)
           => (last'.op = "admit" /\ last'.atInvoke = "HALF_OPEN") ]_vars

\* C34: a call made while the breaker is HALF_OPEN (its trial call is then
\* still in flight: any settlement leaves HALF_OPEN) does not invoke fn.
C34_OneTrialInFlight ==
  [][ (CallStep /\ Breaker.state = "HALF_OPEN") => invocations' = invocations ]_vars

\* C35: in every reachable state, whatever the interleaving of the calls:
\* a CLOSED breaker has failureCount < threshold; an OPEN or HALF_OPEN
\* breaker has failureCount >= threshold and a nextAttempt that is set.
C35_StateCounterConsistent ==
  /\ Breaker.state = "CLOSED" => Breaker.failureCount < Breaker.threshold
  /\ Breaker.state \in {"OPEN", "HALF_OPEN"} =>
       /\ Breaker.failureCount >= Breaker.threshold
       /\ Breaker.nextAttempt # Null

C35_Witness ==
  /\ Breaker.state = "HALF_OPEN"
  /\ inflight >= 2
  /\ Breaker.failureCount >= Breaker.threshold
  /\ Breaker.nextAttempt <= now

\* C36: a call made while the breaker is OPEN and the clock is before
\* nextAttempt is rejected and leaves state, failureCount, lastFailure and
\* nextAttempt of the breaker as they were.
C36_ShortCircuitLeavesBreaker ==
  [][ (CallStep /\ Breaker.state = "OPEN" /\ now < Breaker.nextAttempt)
        => /\ last'.op = "shortCircuit"
           /\ Breaker'.state = Breaker.state
           /\ Breaker'.failureCount = Breaker.failureCount
           /\ Breaker'.lastFailure = Breaker.lastFailure
           /\ Breaker'.nextAttempt = Breaker.nextAttempt ]_vars

C36_Witness ==
  /\ last.op = "shortCircuit"
  /\ last.at < last.pre.nextAttempt
  /\ circuitBreakers[Svc] = last.pre
  /\ inflight >= 1

-----------------------------------------------------------------------------
(* The two retry classifiers (checked under SpecNorm) *)

\* an IntegrationError as isTransientError reads it: it has no `response`
\* property, and its `code` is the standardized code
AsRetryReason(value) == [status |-> 0, code |-> value.code, message |-> value.message]

\* the failures one of the classifiers has a case for
Recognised(error) ==
  \/ error.status \in {400, 401, 403, 404, 408, 429, 500, 502, 503, 504}
  \/ error.code \in {"ETIMEDOUT", "ECONNRESET", "ECONNABORTED", "ENETUNREACH", "EHOSTUNREACH",
                     "ECONNREFUSED", "ENOTFOUND"}

\* C38: for every failure with a status or a transport code one of the
\* classifiers recognises, isTransientError(e) = normalizeError(e).isRetryable,
\* and isTransientError gives the same answer for normalizeError(e) as for e.
C38_ClassifiersAgree ==
  (/\ normalized.by = "normalizeError"
   /\ normalized.reason.kind = "Error"
   /\ Recognised(normalized.reason)) =>
     /\ isTransientError(normalized.reason) = normalized.value.isRetryable
     /\ isTransientError(AsRetryReason(normalized.value)) = isTransientError(normalized.reason)

-----------------------------------------------------------------------------
(* The retry decision of the HTTP client (checked under SpecHttp) *)

\* C39: once a request has failed with a response whose status is not one
\* of retryableStatusCodes, it is rejected with the normalized error and was
\* not retried: the client neither waits for a retry nor throws, and no
\* retry was counted.
C39_RetryDependsOnStatus ==
  (http.response.status # 0 /\ http.response.status \notin RetryableStatusCodes) =>
     /\ http.pc = "rejected"
     /\ http.config.retryCount = 0

-----------------------------------------------------------------------------
(* One reply per request (checked under SpecAnyReason) *)

\* C37: a 'search' handler that has run to its end, all its provider calls
\* settled in whatever way, has sent exactly one 'search-results' reply.
C37_ExactlyOneReply ==
  pc \in {"done", "threw"} => Len(replies) = 1

-----------------------------------------------------------------------------
(* Recovery of the circuit breaker (checked under SpecRecover) *)

\* C32: once fn has stopped failing, with calls arriving and settling and
\* time passing, a breaker that is OPEN comes to be CLOSED with failureCount
\* 0 and is so for ever after
C32_RecoversAndStaysClosed ==
  (recovery.healthy /\ Breaker.state = "OPEN")
    ~> [](Breaker.state = "CLOSED" /\ Breaker.failureCount = 0)

\* fn stopped failing while the breaker was OPEN, every call begun before
\* has settled, and the breaker is CLOSED again with no failure counted
C32_Witness ==
  /\ recovery.healthy
  /\ recovery.wasOpen
  /\ recovery.old = 0
  /\ Breaker.state = "CLOSED"
  /\ Breaker.failureCount = 0

-----------------------------------------------------------------------------
(* The results on display (checked under SpecWindow) *)

\* C40: the results the search window displays are those of the search it
\* sent last; the reply to an earlier query, arriving late, is not displayed
C40_ShowsLatestSearch ==
  ui.resultItems # <<>> =>
    ui.resultItems = (IF win.dispatched = <<"a", "b">> THEN Catalog("jira")
                                                       ELSE Catalog("confluence"))

-----------------------------------------------------------------------------
(* Where the secrets are kept (checked under SpecSettings) *)

\* C31: after any sequence of 'update-setting' requests, the value of a
\* sensitive key (apiToken, personalAccessToken) is in the keychain only:
\* neither the legacy store nor the integration's config manager holds it,
\* the store holding at most the hasCredential marker
C31_SecretsOnlyInKeychain ==
  \A key \in SettingKeys :
     key.sensitive => /\ stores.store[key].kind # "value"
                      /\ stores.managers[key].kind # "value"

=============================================================================
